---- MODULE Spec2Model ----
(***************************************************************************)
(* Workflow execution core of orchestrator-core (orchestrator/workflow.py).*)
(*                                                                         *)
(* Spec        : the step executor _exec_steps as a state machine.  Every  *)
(*               call of _exec_steps owns one frame of `stack`; the frame  *)
(*               records, in `ev`, each step invocation and each call of   *)
(*               the log function in the order in which they happen.       *)
(* AlgebraSpec : the combinators of the Process sum type (execute_step,    *)
(*               resume, abort, map, unwrap and the predicates) applied to *)
(*               arbitrary receivers.                                      *)
(* StepSpec    : a step built by step, retrystep, inputstep, conditional   *)
(*               or focussteps, called as a function with a state.         *)
(* ListSpec    : the operator >> of StepList on lists held in a heap.      *)
(* WorkflowSpec: the driver runwf / abort_wf run repeatedly on a process of *)
(*               one of a few workflows built with step, retrystep,        *)
(*               inputstep, step_group, callback_step and conditional;     *)
(*               `trace` keeps every step entered and every call of the    *)
(*               log writer.                                               *)
(***************************************************************************)
EXTENDS Naturals, Sequences, FiniteSets, TLC

VARIABLES
    stack,        \* frames of the running _exec_steps calls, outermost first
    result,       \* what the outermost _exec_steps call returned (Null before)
    global_lock,  \* get_engine_settings().global_lock
    now,          \* ticks of nowtz()
    recv,         \* the receiver `self` (StepSpec: the state; ListSpec: the heap)
    op,           \* the combinators applied (StepSpec: the step called)
    out,          \* what was returned (ListSpec: the operands left)
    calls,        \* the calls made of the callables involved
    pstat,        \* WorkflowSpec: the ProcessStat of the next runwf / abort_wf
    db,           \* WorkflowSpec: the step records the log writer has stored
    trace,        \* every step entered and every call of the log writer so far
    step_log_fn_var,  \* the context variable "log_step_fn"
    runs,         \* WorkflowSpec: calls of runwf and abort_wf made so far
    invalidated   \* WorkflowSpec: calls of invalidate_status_counts so far

vars == <<stack, result, global_lock, now, recv, op, out, calls,
          pstat, db, trace, step_log_fn_var, runs, invalidated>>

execVars == <<stack, result, global_lock, now>>
algebraVars == <<recv, op, out, calls>>
wfVars == <<pstat, db, trace, step_log_fn_var, runs, invalidated>>

(***************************************************************************)
(* Bounds of the model.                                                    *)
(***************************************************************************)
MaxSteps == 3      \* longest step list handed to _exec_steps
MaxOps == 2        \* combinators applied in a row in AlgebraSpec
MaxRuns == 3       \* calls of runwf and abort_wf on one process

StepNames == {"a", "b", "c"}

(***************************************************************************)
(* The Process sum type.                                                   *)
(***************************************************************************)
Tags == {"Success", "Skipped", "Suspend", "Waiting", "AwaitingCallback",
         "Abort", "Failed", "Complete"}

Success(s) == [tag |-> "Success", s |-> s]
Skipped(s) == [tag |-> "Skipped", s |-> s]
Suspend(s) == [tag |-> "Suspend", s |-> s]
Waiting(s) == [tag |-> "Waiting", s |-> s]
AwaitingCallback(s) == [tag |-> "AwaitingCallback", s |-> s]
Abort(s) == [tag |-> "Abort", s |-> s]
Failed(s) == [tag |-> "Failed", s |-> s]
Complete(s) == [tag |-> "Complete", s |-> s]

(***************************************************************************)
(* Callables.  A function value of the program is a record naming the      *)
(* function and holding what it closes over; Apply(f, x) is the call f(x). *)
(* Entering a callable whose body is not a pure function of its argument   *)
(* (a step, resume_suspend) yields Call: the caller's action decides what  *)
(* the callable does and returns.                                          *)
(***************************************************************************)
Fn(name) == [fn |-> name]
Constructor(tag) == [fn |-> "constructor", cls |-> tag]
Merge(d) == [fn |-> "merge", d |-> d]
MapG(cls, f) == [fn |-> "g", cls |-> cls, f |-> f]
Callable(c) == [fn |-> "callable", c |-> c]

Call(c, a) == [call |-> c, a |-> a]
IsCall(r) == "call" \in DOMAIN r

\* Exceptions and the error dictionaries made from them.
ExceptionOf(what) == [exception |-> what]
IsException(s) == "exception" \in DOMAIN s

\* error_state_to_dict: an exception becomes a dictionary, a dictionary is kept.
error_state_to_dict(s) ==
    IF IsException(s)
    THEN ("class" :> "Exception") @@ [error |-> s.exception]
    ELSE s

RECURSIVE Apply(_, _)
Apply(f, x) ==
    CASE f.fn = "constructor" -> [tag |-> f.cls, s |-> x]
      [] f.fn = "const(True)" -> TRUE
      [] f.fn = "const(False)" -> FALSE
      [] f.fn = "const" -> f.v
      [] f.fn = "identity" -> x
      [] f.fn = "merge" -> f.d @@ x
      [] f.fn = "error_state_to_dict" -> error_state_to_dict(x)
      [] f.fn = "g" -> [tag |-> f.cls, s |-> Apply(f.f, x)]
      [] f.fn = "callable" -> Call(f.c, x)
      [] f.fn = "get" -> IF f.key \in DOMAIN x THEN x[f.key] ELSE <<>>
      [] f.fn = "set" -> [fn |-> "lambda substate", state |-> x, key |-> f.key]
      [] f.fn = "lambda substate" -> (f.key :> x) @@ f.state

\* The eight-way eliminator: each subclass applies the handler of its own tag.
\* h = <<success, skipped, suspend, waiting, awaiting_callback, abort, failed,
\*       complete>>.
_fold(p, h) ==
    CASE p.tag = "Success" -> Apply(h[1], p.s)
      [] p.tag = "Skipped" -> Apply(h[2], p.s)
      [] p.tag = "Suspend" -> Apply(h[3], p.s)
      [] p.tag = "Waiting" -> Apply(h[4], p.s)
      [] p.tag = "AwaitingCallback" -> Apply(h[5], p.s)
      [] p.tag = "Abort" -> Apply(h[6], p.s)
      [] p.tag = "Failed" -> Apply(h[7], p.s)
      [] p.tag = "Complete" -> Apply(h[8], p.s)

T == Fn("const(True)")
F == Fn("const(False)")
identity == Fn("identity")

\* Variant of map whose g builds Success whatever the class of the receiver.
map_to_success(p, f) ==
    LET g == MapG("Success", f)
    IN  _fold(p, <<g, g, g, g, g, g, g, g>>)

map(p, f) ==
    LET g == MapG(p.tag, f)
    IN  _fold(p, <<g, g, g, g, g, g, g, g>>)

unwrap(p) ==
    _fold(p, <<identity, identity, identity, identity, identity, identity,
               identity, identity>>)

issuccess(p) == _fold(p, <<T, F, F, F, F, F, F, F>>)
isskipped(p) == _fold(p, <<F, T, F, F, F, F, F, F>>)
issuspend(p) == _fold(p, <<F, F, T, F, F, F, F, F>>)
iswaiting(p) == _fold(p, <<F, F, F, T, F, F, F, F>>)
isawaitingcallback(p) == _fold(p, <<F, F, F, F, T, F, F, F>>)
isabort(p) == _fold(p, <<F, F, F, F, F, T, F, F>>)
isfailed(p) == _fold(p, <<F, F, F, F, F, F, T, F>>)
iscomplete(p) == _fold(p, <<F, F, F, F, F, F, F, T>>)

\* The eight predicates by name.
Predicates ==
    <<"issuccess", "isskipped", "issuspend", "iswaiting",
      "isawaitingcallback", "isabort", "isfailed", "iscomplete">>

CallPredicate(name, p) ==
    CASE name = "issuccess" -> issuccess(p)
      [] name = "isskipped" -> isskipped(p)
      [] name = "issuspend" -> issuspend(p)
      [] name = "iswaiting" -> iswaiting(p)
      [] name = "isawaitingcallback" -> isawaitingcallback(p)
      [] name = "isabort" -> isabort(p)
      [] name = "isfailed" -> isfailed(p)
      [] name = "iscomplete" -> iscomplete(p)

\* const(v) and the property overall_status.
Const(v) == [fn |-> "const", v |-> v]

\* Variant of the projection that counts a waiting process as failed.
overall_status_waiting_failed(p) ==
    _fold(p, <<Const("running"), Const("running"), Const("suspended"),
               Const("failed"), Const("awaiting_callback"), Const("aborted"),
               Const("failed"), Const("completed")>>)

overall_status(p) ==
    _fold(p, <<Const("running"), Const("running"), Const("suspended"),
               Const("waiting"), Const("awaiting_callback"), Const("aborted"),
               Const("failed"), Const("completed")>>)

on_failed(p, f) == IF isfailed(p) THEN map(p, f) ELSE p
on_waiting(p, f) == IF iswaiting(p) THEN map(p, f) ELSE p

CSuccess == Constructor("Success")
CSuspend == Constructor("Suspend")
CWaiting == Constructor("Waiting")
CAwaitingCallback == Constructor("AwaitingCallback")
CAbort == Constructor("Abort")
CFailed == Constructor("Failed")
CComplete == Constructor("Complete")

\* Variant of execute_step that enters the step from Success only.
execute_step_success_only(p, step) ==
    _fold(p, <<Callable(step), Constructor("Skipped"), CSuspend, CWaiting,
               CAwaitingCallback, CAbort, CFailed, CComplete>>)

\* Variant of execute_step that hands a suspended process to the step as well.
execute_step_reenters(p, step) ==
    _fold(p, <<Callable(step), Callable(step), Callable(step), CWaiting,
               CAwaitingCallback, CAbort, CFailed, CComplete>>)

\* execute_step(step): the result is a process, or Call(step, s) when step is
\* entered with the carried state s.
execute_step(p, step) ==
    _fold(p, <<Callable(step), Callable(step), CSuspend, CWaiting,
               CAwaitingCallback, CAbort, CFailed, CComplete>>)

\* Variant of abort that aborts completed processes too.
abort_completed(p) ==
    _fold(p, <<CAbort, CAbort, CAbort, CAbort, CAbort, CAbort, CAbort,
               CAbort>>)

abort(p) ==
    _fold(p, <<CAbort, CAbort, CAbort, CAbort, CAbort, CAbort, CAbort,
               CComplete>>)

\* Variant of resume that asks resume_suspend for Waiting processes as well.
resume_waiting_asks(p, resume_suspend) ==
    LET next_state == _fold(p, <<CSuccess, CSuccess, CSuccess, CSuccess,
                                 CSuccess, CAbort, CSuccess, CComplete>>)
    IN  IF issuspend(p) \/ isawaitingcallback(p) \/ iswaiting(p)
        THEN Apply(Callable(resume_suspend), next_state)
        ELSE next_state

\* Variant of resume that turns an aborted process into Success.
resume_revives_abort(p, resume_suspend) ==
    LET next_state == _fold(p, <<CSuccess, CSuccess, CSuccess, CSuccess,
                                 CSuccess, CSuccess, CSuccess, CComplete>>)
    IN  IF issuspend(p) \/ isawaitingcallback(p)
        THEN Apply(Callable(resume_suspend), next_state)
        ELSE next_state

\* resume(resume_suspend): the result is a process, or Call(resume_suspend,
\* next_state) when resume_suspend is entered.
resume(p, resume_suspend) ==
    LET next_state == _fold(p, <<CSuccess, CSuccess, CSuccess, CSuccess,
                                 CSuccess, CAbort, CSuccess, CComplete>>)
    IN  IF issuspend(p) \/ isawaitingcallback(p)
        THEN Apply(Callable(resume_suspend), next_state)
        ELSE next_state

(***************************************************************************)
(* Steps and step lists.                                                   *)
(***************************************************************************)
\* make_step_function(f, name): a callable with a name.
make_step_function(f, name) == [name |-> name, f |-> f]

\* A step whose body is an arbitrary function State -> Process.
PlainStep(name) == make_step_function([kind |-> "callable"], name)

\* @step(name) around a function that returns the dictionary `func`; `raises`
\* tells whether the function may raise.
step_decorator(name, func, raises) ==
    make_step_function([kind |-> "step", func |-> func, raises |-> raises,
                        args |-> {}], name)

\* @retrystep(name): as step, but an exception is answered with Waiting.
retrystep(name, func, raises) ==
    make_step_function([kind |-> "retrystep", func |-> func, raises |-> raises,
                        args |-> {}], name)

\* @inputstep(name, assignee): the step function is `suspend`.
inputstep(name) == make_step_function([kind |-> "suspend"], name)

\* The steps made by @_purestep: init ("Start") and done ("Done").
init == make_step_function([kind |-> "purestep", cls |-> "Success"], "Start")
done == make_step_function([kind |-> "purestep", cls |-> "Complete"], "Done")

\* A StepList is a sequence of steps; `begin` is the empty one and `>>`
\* appends a step or concatenates a list.
begin == <<>>

\* conditional(p) applied to one step: `wrap`.  The predicate p is "the state
\* has key p.key".
conditional(p, wrapped) ==
    make_step_function([kind |-> "conditional", p |-> p, step |-> wrapped],
                       wrapped.name)

\* steplens(get, set) applied to one step: `wrap`.
steplens(get, set, step) ==
    make_step_function([kind |-> "steplens", get |-> get, set |-> set,
                        step |-> step], step.name)

\* focussteps(key) applied to a step list: `zoom`, with its `get`
\* (state.get(key, {})) and its `set` ({**state, key: substate}).  The empty
\* dictionary is the empty function <<>>.
focussteps(key, steps) ==
    LET get == [fn |-> "get", key |-> key]
        set == [fn |-> "set", key |-> key]
    IN  [i \in 1..Len(steps) |-> steplens(get, set, steps[i])]

\* inject_args(func)(state): the parameters of func are bound from the state
\* and the dictionary func returns is merged over the state.
inject_args(func, state) == func @@ state

\* Variant whose exit step asks for the removal of __step_group alone.
_extend_step_group_steps_keeps_sub_step(name, steps) ==
    LET enter_step == begin \o <<step_decorator(name \o " - Enter",
                              ("__step_name_override" :> name)
                                  @@ ("__step_group" :> name),
                              FALSE)>>
        exit_step == step_decorator(name \o " - Exit",
                          "__remove_keys" :> <<"__step_group">>,
                          FALSE)
    IN  enter_step \o steps \o <<exit_step>>

\* _extend_step_group_steps(name, steps)
_extend_step_group_steps(name, steps) ==
    LET enter_step == begin \o <<step_decorator(name \o " - Enter",
                              ("__step_name_override" :> name)
                                  @@ ("__step_group" :> name),
                              FALSE)>>
        exit_step == step_decorator(name \o " - Exit",
                          "__remove_keys" :> <<"__step_group", "__sub_step">>,
                          FALSE)
    IN  enter_step \o steps \o <<exit_step>>

\* step_group(name, steps): the step function is `func`, which closes over
\* the extended list and the name.
step_group(name, steps) ==
    make_step_function([kind |-> "step_group", name |-> name,
                        steps |-> _extend_step_group_steps(name, steps)], name)

DEFAULT_CALLBACK_ROUTE_KEY == "callback_route"
CALLBACK_TOKEN_KEY == "__callback_token"

\* _create_endpoint_step(key): the token is drawn at random; "tok" is the one
\* drawn.  The function takes its parameter process_id from the state.
_create_endpoint_step(name, key) ==
    make_step_function([kind |-> "step",
                        func |-> (key :> "/api/processes/p/callback/tok")
                                     @@ (CALLBACK_TOKEN_KEY :> "tok"),
                        raises |-> FALSE, args |-> {"process_id"}], name)

\* _awaitstep(name, result_key); result_key "None" is Python's None.
_awaitstep(name, result_key) ==
    make_step_function([kind |-> "_awaitstep", result_key |-> result_key], name)

\* Variant of callback_step that waits for the callback before it acts.
callback_step_awaits_first(name, action_step, validate_step) ==
    LET create_endpoint_step ==
            _create_endpoint_step(name \o " - Create endpoint",
                                  DEFAULT_CALLBACK_ROUTE_KEY)
        await_step == _awaitstep(name \o " - Await callback", "None")
        cleanup_step ==
            step_decorator(name \o " - Cleanup callback step",
                           "__remove_keys" :> <<CALLBACK_TOKEN_KEY>>, FALSE)
    IN  step_group(name, begin \o <<create_endpoint_step, await_step,
                                    action_step, validate_step, cleanup_step>>)

\* Variant of callback_step without the cleanup step.
callback_step_no_cleanup(name, action_step, validate_step) ==
    LET create_endpoint_step ==
            _create_endpoint_step(name \o " - Create endpoint",
                                  DEFAULT_CALLBACK_ROUTE_KEY)
        await_step == _awaitstep(name \o " - Await callback", "None")
    IN  step_group(name, begin \o <<create_endpoint_step, action_step,
                                    await_step, validate_step>>)

\* callback_step(name, action_step, validate_step) with the default
\* result_key and callback_route_key.
callback_step(name, action_step, validate_step) ==
    LET create_endpoint_step ==
            _create_endpoint_step(name \o " - Create endpoint",
                                  DEFAULT_CALLBACK_ROUTE_KEY)
        await_step == _awaitstep(name \o " - Await callback", "None")
        cleanup_step ==
            step_decorator(name \o " - Cleanup callback step",
                           "__remove_keys" :> <<CALLBACK_TOKEN_KEY>>, FALSE)
    IN  step_group(name, begin \o <<create_endpoint_step, action_step,
                                    await_step, validate_step, cleanup_step>>)

RECURSIVE SeqsUpTo(_, _)
SeqsUpTo(S, n) ==
    IF n = 0 THEN {<<>>}
    ELSE LET shorter == SeqsUpTo(S, n - 1)
         IN  shorter \cup {Append(q, x) : q \in shorter, x \in S}

StepLists == SeqsUpTo({PlainStep(n) : n \in StepNames}, MaxSteps)

\* What a call of a step's body may do: return a process of any variant, or
\* raise.  A body that returns Failed or Waiting carries the exception it
\* caught (step, retrystep); the other variants carry the state it computed.
Outcomes == Tags \cup {"raise"}

StepState(step, s) == (step.name :> "done") @@ s

StepReturn(step, s, o) ==
    IF o \in {"Failed", "Waiting"}
    THEN [tag |-> o, s |-> ExceptionOf(step.name)]
    ELSE [tag |-> o, s |-> StepState(step, s)]

\* What the log function may do with the process it is given: return it, or
\* return a failure of its own.
LogOutcomes == {"stored", "write failed"}

LogReturn(given, lo) ==
    IF lo = "stored" THEN given ELSE Failed([error |-> "log"])

StartStates == {[process_id |-> "p"], [process_id |-> "p", x |-> "done"]}

StartProcesses ==
    {[tag |-> t, s |-> s] : t \in Tags \ {"Failed", "Waiting"}, s \in StartStates}
    \cup {[tag |-> t, s |-> [error |-> "earlier"]] : t \in {"Failed", "Waiting"}}

NoProcess == [tag |-> "None", s |-> [none |-> "none"]]

\* An exception x leaving a call in place of a return value.
Raised(x) == [tag |-> "Raised", s |-> x]

\* One call of a callable c with argument a, and what it returned.
CallRec(c, a, ret) == [c |-> c, a |-> a, ret |-> ret]

\* One execution of a step function: what it returned (or raised) and the
\* calls it made itself of the steps it wraps.
Ran(ret) == [ret |-> ret, called |-> <<>>]

\* Variant of the wrapper that lets the function's exception through.
wrapper_reraises(step, s, on_exception) ==
    IF ~(step.f.args \subseteq DOMAIN s)
    THEN {Ran(Raised(ExceptionOf(step.name)))}
    ELSE {Ran(Success(inject_args(step.f.func, s)))}
         \cup IF step.f.raises
              THEN {Ran(Raised(ExceptionOf(step.name)))}
              ELSE {}

\* The wrapper of @step / @retrystep: `Success(result)`, or the handler's
\* variant around the exception (a missing parameter raises as the body does).
wrapper(step, s, on_exception) ==
    IF ~(step.f.args \subseteq DOMAIN s)
    THEN {Ran([tag |-> on_exception, s |-> ExceptionOf(step.name)])}
    ELSE {Ran(Success(inject_args(step.f.func, s)))}
         \cup IF step.f.raises
              THEN {Ran([tag |-> on_exception, s |-> ExceptionOf(step.name)])}
              ELSE {}

\* Variant of an input step that runs its form before it suspends.
suspend_runs_form(step, s) ==
    {[ret |-> Suspend(s),
      called |-> <<CallRec(step.name \o " form", s, NoProcess)>>]}

\* The step function of an input step: `return Suspend(state)`.  The form
\* (`wrapper`) is an attribute of the step and is not called.
suspend(step, s) == {Ran(Suspend(s))}

\* The executions a step function other than a group's may make of state s.
RECURSIVE StepRuns(_, _)

\* Variant of conditional's wrapper that runs the step when p(state) is false.
conditional_wrapper_inverted(step, s) ==
    IF step.f.p.key \notin DOMAIN s
    THEN {[r EXCEPT !.called = <<CallRec(step.f.step.name, s, r.ret)>> \o @] :
            r \in StepRuns(step.f.step, s)}
    ELSE {Ran(Skipped(s))}

\* conditional's wrapper: `step(state) if p(state) else Skipped(state)`.
conditional_wrapper(step, s) ==
    IF step.f.p.key \in DOMAIN s
    THEN {[r EXCEPT !.called = <<CallRec(step.f.step.name, s, r.ret)>> \o @] :
            r \in StepRuns(step.f.step, s)}
    ELSE {Ran(Skipped(s))}

\* Variant of steplens' wrapper that puts every result back into the state.
steplens_wrapper_sets_all(step, s) ==
    LET sub_state == Apply(step.f.get, s)
    IN  {[ret |-> IF r.ret.tag = "Raised" THEN r.ret
                  ELSE map(r.ret, Apply(step.f.set, s)),
          called |-> <<CallRec(step.f.step.name, sub_state, r.ret)>>
                     \o r.called] :
            r \in StepRuns(step.f.step, sub_state)}

\* steplens' wrapper: the step is called with get(state); a Failed or Waiting
\* result is returned as it is, any other is mapped with set(state).  An
\* exception of the step leaves the wrapper too.
steplens_wrapper(step, s) ==
    LET sub_state == Apply(step.f.get, s)
    IN  {[ret |-> IF r.ret.tag = "Raised" THEN r.ret
                  ELSE IF isfailed(r.ret) \/ iswaiting(r.ret) THEN r.ret
                  ELSE map(r.ret, Apply(step.f.set, s)),
          called |-> <<CallRec(step.f.step.name, sub_state, r.ret)>>
                     \o r.called] :
            r \in StepRuns(step.f.step, sub_state)}

StepRuns(step, s) ==
    CASE step.f.kind = "callable" ->
            {Ran(StepReturn(step, s, o)) : o \in Tags}
            \cup {Ran(Raised(ExceptionOf(step.name)))}
      [] step.f.kind = "step" -> wrapper(step, s, "Failed")
      [] step.f.kind = "retrystep" -> wrapper(step, s, "Waiting")
      [] step.f.kind = "suspend" -> suspend(step, s)
      [] step.f.kind = "purestep" -> {Ran([tag |-> step.f.cls, s |-> s])}
      [] step.f.kind = "_awaitstep" ->
            {Ran(AwaitingCallback(
                    IF step.f.result_key = "None" THEN s
                    ELSE ("__callback_result_key" :> step.f.result_key) @@ s))}
      [] step.f.kind = "conditional" -> conditional_wrapper(step, s)
      [] step.f.kind = "steplens" -> steplens_wrapper(step, s)

(***************************************************************************)
(* The log writer handed to runwf and abort_wf, logstep(pstat, step, p).   *)
(* It stores one record per call, or replaces the last one, and answers    *)
(* with the process as stored.                                             *)
(***************************************************************************)
Without(s, keys) == [k \in DOMAIN s \ keys |-> s[k]]

RECURSIVE Range(_)
Range(q) == IF q = <<>> THEN {} ELSE {Head(q)} \cup Range(Tail(q))

logstep_name(step, p) ==
    IF "__step_name_override" \in DOMAIN p.s
    THEN p.s["__step_name_override"]
    ELSE step.name

logstep_state(p) ==
    Without(p.s,
            {"__step_name_override", "__replace_last_state", "__remove_keys"}
            \cup IF "__remove_keys" \in DOMAIN p.s
                 THEN Range(p.s["__remove_keys"])
                 ELSE {})

logstep_return(p) == [tag |-> p.tag, s |-> logstep_state(p)]

logstep(records, step, p) ==
    LET record == [name |-> logstep_name(step, p), status |-> p.tag,
                   state |-> logstep_state(p)]
    IN  IF "__replace_last_state" \in DOMAIN p.s /\ records # <<>>
        THEN [records EXCEPT ![Len(records)] = record]
        ELSE Append(records, record)

\* The entries of `trace`.
TInvoke(name, s) == [e |-> "invoke", name |-> name, p |-> Success(s)]
TCalled(name, s) == [e |-> "called", name |-> name, p |-> Success(s)]
TLog(name, p) == [e |-> "logstep", name |-> name, p |-> p]
TRun(fn, p) == [e |-> fn, name |-> fn, p |-> p]

RECURSIVE TCalls(_)
TCalls(called) ==
    IF called = <<>> THEN <<>>
    ELSE <<TCalled(Head(called).c, Head(called).a)>> \o TCalls(Tail(called))

(***************************************************************************)
(* _exec_steps.  A frame is one call: the step list, the position of the   *)
(* for loop, the local `process`, the local `step_result_process`, and the *)
(* history `ev` of what the call has done so far.                          *)
(***************************************************************************)
Top == Len(stack)
Frame == stack[Top]
Running == Top > 0 /\ Frame.pc # "returned"

InvokeEv(i, s) == [e |-> "invoke", i |-> i, given |-> Success(s), got |-> NoProcess]
ReturnEv(i, p) == [e |-> "return", i |-> i, given |-> NoProcess, got |-> p]
RaiseEv(i, x) == [e |-> "raise", i |-> i, given |-> NoProcess, got |-> Raised(x)]
CalledEv(i, s) == [e |-> "called", i |-> i, given |-> Success(s), got |-> NoProcess]
LogEv(i, given, got) == [e |-> "log", i |-> i, given |-> given, got |-> got]

\* Variant of NewFrame that starts the loop from Success whatever it is given.
NewFrame_from_success(steps, starting_process, dblogstep) ==
    [steps |-> steps, starting_process |-> starting_process, i |-> 1,
     process |-> Success(starting_process.s), step_result_process |-> NoProcess,
     pc |-> "for", ev |-> <<>>, paused |-> FALSE,
     dblogstep |-> dblogstep, func |-> Fn("none")]

\* A call _exec_steps(steps, starting_process, dblogstep) at its first line.
\* `func` holds the locals of the step function the call is inside of, once
\* it has entered one that runs steps of its own.
NewFrame(steps, starting_process, dblogstep) ==
    [steps |-> steps, starting_process |-> starting_process, i |-> 1,
     process |-> starting_process, step_result_process |-> NoProcess,
     pc |-> "for", ev |-> <<>>, paused |-> FALSE,
     dblogstep |-> dblogstep, func |-> Fn("none")]

\* `return process`
Return(f) == [f EXCEPT !.pc = "returned"]

\* Variant of the loop's test that stops for failures only.
may_continue_unless_failed(process) ==
    ~isfailed(process) /\ ~iswaiting(process)

\* Variant of the loop's test that lets a suspended process go on.
may_continue_suspended(process) ==
    issuccess(process) \/ isskipped(process) \/ issuspend(process)

\* The loop's test `process.issuccess() or process.isskipped()`.
may_continue(process) == issuccess(process) \/ isskipped(process)

\* Variant of the pause that returns the process the call was started with.
return_paused_starting_process(f) ==
    Return([f EXCEPT !.paused = TRUE, !.process = f.starting_process])

\* Variant of the pause that stamps the step's start time before it returns.
return_paused_stamped(f) ==
    Return([f EXCEPT !.paused = TRUE,
                     !.process = map(@, Merge("__last_step_started_at" :> 0))])

\* `if engine_status.global_lock: ... return process`
return_paused(f) == Return([f EXCEPT !.paused = TRUE])

\* Variant of the handler that parks the process in Waiting.
except_Exception_waiting(e) == Waiting(e)

\* `except Exception as e: ... step_result_process = Failed(e)`
except_Exception(e) == Failed(e)

\* Variant that converts the error of a Failed result only.
result_to_log_failed_only(step_result_process) ==
    on_failed(step_result_process, Fn("error_state_to_dict"))

\* `result_to_log = step_result_process.on_failed(error_state_to_dict)
\*                                     .on_waiting(error_state_to_dict)`
result_to_log(step_result_process) ==
    on_waiting(on_failed(step_result_process, Fn("error_state_to_dict")),
               Fn("error_state_to_dict"))

\* Variant that runs a step again when it was logged as Failed.
after_dblogstep_retries_failed(f, given, got) ==
    IF got.tag = "Failed"
    THEN [f EXCEPT !.ev = Append(@, LogEv(f.i, given, got)),
                   !.pc = "for"]
    ELSE [f EXCEPT !.ev = Append(@, LogEv(f.i, given, got)),
                   !.process = got,
                   !.i = @ + 1,
                   !.pc = "for"]

\* Variant that goes on with the step's result, not with the log's answer.
after_dblogstep_keeps_result(f, given, got) ==
    [f EXCEPT !.ev = Append(@, LogEv(f.i, given, got)),
              !.process = given,
              !.i = @ + 1,
              !.pc = "for"]

\* Variant that does not log a step that was skipped.
after_dblogstep_skips_skipped(f, given, got) ==
    IF given.tag = "Skipped"
    THEN [f EXCEPT !.process = given, !.i = @ + 1, !.pc = "for"]
    ELSE [f EXCEPT !.ev = Append(@, LogEv(f.i, given, got)),
                   !.process = got,
                   !.i = @ + 1,
                   !.pc = "for"]

\* Variant that moves on to the next step without the call of dblogstep.
after_dblogstep_not_awaited(f, given, got) ==
    [f EXCEPT !.process = given,
              !.i = @ + 1,
              !.pc = "for"]

\* `process = dblogstep(step, result_to_log)` returned `got`; the loop moves on.
after_dblogstep(f, given, got) ==
    [f EXCEPT !.ev = Append(@, LogEv(f.i, given, got)),
              !.process = got,
              !.i = @ + 1,
              !.pc = "for"]

SetFrame(f) ==
    /\ stack' = [stack EXCEPT ![Top] = f]
    /\ result' = IF Top = 1 /\ f.pc = "returned" THEN f.process ELSE result

\* A caller runs _exec_steps(steps, starting_process, dblogstep).
call_exec_steps ==
    /\ stack = <<>>
    /\ \E steps \in StepLists, starting_process \in StartProcesses :
           stack' = <<NewFrame(steps, starting_process, Fn("dblogstep"))>>
    /\ UNCHANGED <<result, global_lock, now>>
    /\ UNCHANGED algebraVars
    /\ UNCHANGED wfVars

\* `for step in steps:` has a next step and `process` is Success or Skipped.
exec_steps_for ==
    /\ Running /\ Frame.pc = "for"
    /\ Frame.i <= Len(Frame.steps)
    /\ may_continue(Frame.process)
    /\ SetFrame([Frame EXCEPT !.pc = "try"])
    /\ UNCHANGED <<global_lock, now>>
    /\ UNCHANGED algebraVars
    /\ UNCHANGED wfVars

\* `if not (process.issuccess() or process.isskipped()): break`
exec_steps_break ==
    /\ Running /\ Frame.pc = "for"
    /\ Frame.i <= Len(Frame.steps)
    /\ ~may_continue(Frame.process)
    /\ SetFrame(Return(Frame))
    /\ UNCHANGED <<global_lock, now>>
    /\ UNCHANGED algebraVars
    /\ UNCHANGED wfVars

\* The for loop has run out of steps: `return process`.
exec_steps_exhausted ==
    /\ Running /\ Frame.pc = "for"
    /\ Frame.i > Len(Frame.steps)
    /\ SetFrame(Return(Frame))
    /\ UNCHANGED <<global_lock, now>>
    /\ UNCHANGED algebraVars
    /\ UNCHANGED wfVars

\* `if engine_status.global_lock: return process`
exec_steps_paused ==
    /\ Running /\ Frame.pc = "try"
    /\ global_lock
    /\ SetFrame(return_paused(Frame))
    /\ UNCHANGED <<global_lock, now>>
    /\ UNCHANGED algebraVars
    /\ UNCHANGED wfVars

\* get_engine_settings() raises inside the try block: `step_result_process =
\* Failed(e)`, the step is not entered.
exec_steps_settings_error ==
    /\ Running /\ Frame.pc = "try"
    /\ SetFrame([Frame EXCEPT
                    !.step_result_process =
                        except_Exception(ExceptionOf("settings")),
                    !.pc = "log"])
    /\ UNCHANGED <<global_lock, now>>
    /\ UNCHANGED algebraVars
    /\ UNCHANGED wfVars

\* `process = process.map(lambda s: s | {"__last_step_started_at": ...})`
exec_steps_stamp ==
    /\ Running /\ Frame.pc = "try"
    /\ ~global_lock
    /\ SetFrame([Frame EXCEPT
                    !.process = map(@, Merge("__last_step_started_at" :> now)),
                    !.pc = "execute"])
    /\ now' = now + 1
    /\ UNCHANGED global_lock
    /\ UNCHANGED algebraVars
    /\ UNCHANGED wfVars

\* `step_result_process = process.execute_step(step)`, and
\* `except Exception as e: step_result_process = Failed(e)`.
exec_steps_execute_step ==
    /\ Running /\ Frame.pc = "execute"
    /\ Frame.steps[Frame.i].f.kind # "step_group"
    /\ LET step == Frame.steps[Frame.i]
           r == execute_step(Frame.process, step)
       IN  IF IsCall(r)
           THEN \E run \in StepRuns(step, r.a) :
                  LET entered ==
                        Append(Frame.ev, InvokeEv(Frame.i, r.a))
                        \o [k \in 1..Len(run.called) |->
                              CalledEv(Frame.i, run.called[k].a)]
                  IN  /\ trace' = Append(trace, TInvoke(step.name, r.a))
                                      \o TCalls(run.called)
                      /\ IF run.ret.tag = "Raised"
                         THEN SetFrame([Frame EXCEPT
                                  !.ev = Append(entered,
                                                RaiseEv(Frame.i, run.ret.s)),
                                  !.step_result_process =
                                                except_Exception(run.ret.s),
                                  !.pc = "log"])
                         ELSE SetFrame([Frame EXCEPT
                                  !.ev = Append(entered,
                                                ReturnEv(Frame.i, run.ret)),
                                  !.step_result_process = run.ret,
                                  !.pc = "log"])
           ELSE /\ SetFrame([Frame EXCEPT !.step_result_process = r,
                                          !.pc = "log"])
                /\ UNCHANGED trace
    /\ UNCHANGED <<global_lock, now>>
    /\ UNCHANGED algebraVars
    /\ UNCHANGED <<pstat, db, step_log_fn_var, runs, invalidated>>

\* dropwhile(lambda s: s.name != name, steps)
RECURSIVE dropwhile_name_differs(_, _)
dropwhile_name_differs(name, steps) ==
    IF steps = <<>> \/ Head(steps).name = name THEN steps
    ELSE dropwhile_name_differs(name, Tail(steps))

\* Variant of the choice that runs the whole list when no sub-step has the
\* name.
step_list_restarts_unnamed(steps, initial_state) ==
    IF "__sub_step" \in DOMAIN initial_state
    THEN LET rest == dropwhile_name_differs(initial_state["__sub_step"], steps)
         IN  IF rest = <<>> THEN steps ELSE Tail(rest)
    ELSE steps

\* Variant of the choice that resumes at the named sub-step, not after it.
step_list_from_named(steps, initial_state) ==
    IF "__sub_step" \in DOMAIN initial_state
    THEN dropwhile_name_differs(initial_state["__sub_step"], steps)
    ELSE steps

\* The sub-steps a group runs: `step_list` of step_group.func.
step_list(steps, initial_state) ==
    IF "__sub_step" \in DOMAIN initial_state
    THEN LET rest == dropwhile_name_differs(initial_state["__sub_step"], steps)
         IN  IF rest = <<>> THEN <<>> ELSE Tail(rest)
    ELSE steps

\* The closure dblogstep of step_group.func.
GroupLog(name, steps, initial_state, step_log_fn) ==
    [fn |-> "step_group.dblogstep", name |-> name, step_list |-> steps,
     resumed |-> "__sub_step" \in DOMAIN initial_state,
     step_log_fn |-> step_log_fn]

\* Variant of the group's dblogstep that marks every result as a replacement.
step_group_dblogstep_always_replaces(d, step_, p) ==
    map(p, Merge(("__sub_step" :> step_.name)
                     @@ ("__step_name_override" :> d.name)
                     @@ ("__replace_last_state" :> TRUE)))

\* What step_group's dblogstep hands to step_log_fn for sub-step step_.
step_group_dblogstep(d, step_, p) ==
    LET named == map(p, Merge(("__sub_step" :> step_.name)
                                  @@ ("__step_name_override" :> d.name)))
    IN  IF d.step_list[1] # step_ \/ d.resumed
        THEN map(named, Merge("__replace_last_state" :> TRUE))
        ELSE named

\* Variant of the group's return that marks a Success result only.
step_group_returns_success_only(process, step_group_start_time) ==
    IF issuccess(process)
    THEN map(process, Merge(("__replace_last_state" :> TRUE)
                                @@ ("__last_step_started_at"
                                        :> step_group_start_time)))
    ELSE process

\* `return process.map(lambda s: s | {"__replace_last_state": True,
\*                                    "__last_step_started_at": ...})`
step_group_returns(process, step_group_start_time) ==
    map(process, Merge(("__replace_last_state" :> TRUE)
                           @@ ("__last_step_started_at" :> step_group_start_time)))

\* execute_step enters a group's `func`: it reads the context variable (a
\* LookupError if nothing set it, which _exec_steps answers with Failed),
\* picks its sub-steps and calls _exec_steps for them from
\* Success(initial_state).
step_group_func ==
    /\ Running /\ Frame.pc = "execute"
    /\ Frame.steps[Frame.i].f.kind = "step_group"
    /\ LET step == Frame.steps[Frame.i]
           r == execute_step(Frame.process, step)
           entered == Append(Frame.ev, InvokeEv(Frame.i, r.a))
       IN  /\ IsCall(r)
           /\ trace' = Append(trace, TInvoke(step.name, r.a))
           /\ IF step_log_fn_var = "unset"
              THEN /\ SetFrame([Frame EXCEPT
                          !.ev = Append(entered,
                                   RaiseEv(Frame.i, ExceptionOf("LookupError"))),
                          !.step_result_process =
                                   except_Exception(ExceptionOf("LookupError")),
                          !.pc = "log"])
                   /\ UNCHANGED now
              ELSE /\ stack' =
                         Append([stack EXCEPT ![Top] =
                                    [Frame EXCEPT
                                        !.ev = entered,
                                        !.pc = "in step",
                                        !.func = [fn |-> "step_group.func",
                                                  step_group_start_time |-> now]]],
                                NewFrame(step_list(step.f.steps, r.a),
                                         Success(r.a),
                                         GroupLog(step.f.name,
                                                  step_list(step.f.steps, r.a),
                                                  r.a, step_log_fn_var)))
                   /\ now' = now + 1
                   /\ UNCHANGED result
    /\ UNCHANGED global_lock
    /\ UNCHANGED algebraVars
    /\ UNCHANGED <<pstat, db, step_log_fn_var, runs, invalidated>>

\* The group's _exec_steps has returned: `func` returns its process, marked,
\* to the execute_step that entered it.
step_group_return ==
    /\ Top > 1 /\ Frame.pc = "returned"
    /\ LET caller == stack[Top - 1]
           ret == step_group_returns(Frame.process,
                                     caller.func.step_group_start_time)
       IN  stack' = Append(SubSeq(stack, 1, Top - 2),
                           [caller EXCEPT
                               !.ev = Append(@, ReturnEv(caller.i, ret)),
                               !.step_result_process = ret,
                               !.func = Fn("none"),
                               !.pc = "log"])
    /\ UNCHANGED <<result, global_lock, now>>
    /\ UNCHANGED algebraVars
    /\ UNCHANGED wfVars

\* `process = dblogstep(step, result_to_log)`, then the next iteration.
\* dblogstep is the caller's own function (any log function), runwf's
\* _logstep, or a group's dblogstep, which hands on to the function found in
\* the context variable, _logstep again.
exec_steps_dblogstep ==
    /\ Running /\ Frame.pc = "log"
    /\ LET step == Frame.steps[Frame.i]
           given == result_to_log(Frame.step_result_process)
           handed == IF Frame.dblogstep.fn = "step_group.dblogstep"
                     THEN step_group_dblogstep(Frame.dblogstep, step, given)
                     ELSE given
       IN  IF Frame.dblogstep.fn = "dblogstep"
           THEN /\ \E lo \in LogOutcomes :
                      SetFrame(after_dblogstep(Frame, given, LogReturn(given, lo)))
                /\ UNCHANGED <<db, trace>>
           ELSE /\ SetFrame(after_dblogstep(Frame, given, logstep_return(handed)))
                /\ db' = logstep(db, step, handed)
                /\ trace' = Append(trace, TLog(step.name, handed))
    /\ UNCHANGED <<global_lock, now>>
    /\ UNCHANGED algebraVars
    /\ UNCHANGED <<pstat, step_log_fn_var, runs, invalidated>>

\* The engine is paused or unpaused by its operator, at any time.
set_global_lock ==
    /\ Top > 0
    /\ global_lock' = ~global_lock
    /\ UNCHANGED <<stack, result, now>>
    /\ UNCHANGED algebraVars
    /\ UNCHANGED wfVars

ExecInit ==
    /\ stack = <<>>
    /\ result = NoProcess
    /\ global_lock \in BOOLEAN
    /\ now = 1

NoPstat == [state |-> NoProcess, log |-> <<>>]

\* No process is loaded, nothing is stored and no runwf has set the context
\* variable.
WfIdle ==
    /\ pstat = NoPstat
    /\ db = <<>>
    /\ trace = <<>>
    /\ step_log_fn_var = "unset"
    /\ runs = 0
    /\ invalidated = 0

AlgebraIdle ==
    /\ recv = NoProcess
    /\ op = <<>>
    /\ out = NoProcess
    /\ calls = <<>>

Init == ExecInit /\ AlgebraIdle /\ WfIdle

Next ==
    \/ call_exec_steps
    \/ exec_steps_for
    \/ exec_steps_break
    \/ exec_steps_exhausted
    \/ exec_steps_paused
    \/ exec_steps_settings_error
    \/ exec_steps_stamp
    \/ exec_steps_execute_step
    \/ exec_steps_dblogstep
    \/ set_global_lock

Spec == Init /\ [][Next]_vars

(***************************************************************************)
(* WorkflowSpec: the driver.  A process is started on one of the workflows *)
(* below and is then run (runwf) and aborted (abort_wf) up to MaxRuns      *)
(* times; between two calls the process is loaded again: its state is the  *)
(* process the last call returned and its log the steps still to be run.   *)
(***************************************************************************)
UserStep(name) == step_decorator(name, name :> "done", TRUE)

\* a, an input step, a wait for a callback, Done
wf_input ==
    begin \o <<UserStep("a"), inputstep("u"), _awaitstep("w", "None"), done>>

\* one group of a, b, c, d where b is an input step
wf_group_input ==
    begin \o <<step_group("g", begin \o <<UserStep("a"), inputstep("b"),
                                          UserStep("c"), UserStep("d")>>),
               UserStep("e")>>

\* one group of a, b, c, d
wf_group ==
    begin \o <<step_group("g", begin \o <<UserStep("a"), UserStep("b"),
                                          UserStep("c"), UserStep("d")>>)>>

\* a callback step, Done
wf_callback ==
    begin \o <<callback_step("cb", UserStep("action"), UserStep("validate")),
               done>>

\* a, wrapped by conditional(lambda s: "x" in s), then b
wf_conditional ==
    begin \o <<conditional([key |-> "x"], UserStep("a")), UserStep("b")>>

\* a retry step whose function may raise, a step whose function does not, Done
wf_retry ==
    begin \o <<retrystep("r", "r" :> "done", TRUE),
               step_decorator("b", "b" :> "done", FALSE), done>>

Workflows ==
    {wf_input, wf_group_input, wf_group, wf_callback, wf_conditional, wf_retry}

\* The steps still to be run after a call of _exec_steps: from the step that
\* was logged last if the process halted there, from the next one otherwise.
remaining_log(f) ==
    IF may_continue(f.process) THEN SubSeq(f.steps, f.i, Len(f.steps))
    ELSE IF f.ev = <<>> THEN f.steps
    ELSE SubSeq(f.steps, f.i - 1, Len(f.steps))

\* Variant of resume_suspend that leaves the head in the list in every case.
resume_suspend_steps_peeks(steps, state) == steps

\* Variant of resume_suspend that takes the head off the list in every case.
resume_suspend_steps_pops(steps, state) == Tail(steps)

\* What resume_suspend leaves in `steps`: `step = steps[0]` for a state inside
\* a group, `step = steps.pop(0)` otherwise.
resume_suspend_steps(steps, state) ==
    IF "__step_group" \in DOMAIN state THEN steps ELSE Tail(steps)

\* runwf(pstat, logstep) up to its call of _exec_steps: resume_suspend, run by
\* resume for a Suspend or AwaitingCallback process, takes the head of the
\* list (leaving it there for a group) and logs it with the process it is
\* given; then the context variable is set.
runwf ==
    /\ stack = <<>> /\ runs < MaxRuns
    /\ runs' = runs + 1
    /\ LET steps == pstat.log
           called == Append(trace, TRun("runwf", pstat.state))
           r == resume(pstat.state, "resume_suspend")
       IN  IF ~IsCall(r)
           THEN /\ stack' = <<NewFrame(steps, r, Fn("_logstep"))>>
                /\ step_log_fn_var' = "_logstep"
                /\ result' = NoProcess
                /\ trace' = called
                /\ UNCHANGED db
           ELSE IF steps = <<>>
           THEN /\ result' = Raised(ExceptionOf("IndexError"))
                /\ trace' = called
                /\ UNCHANGED <<stack, step_log_fn_var, db>>
           ELSE LET process == r.a
                    state == unwrap(process)
                    step == steps[1]
                    rest == resume_suspend_steps(steps, state)
                IN  /\ db' = logstep(db, step, process)
                    /\ trace' = Append(called, TLog(step.name, process))
                    /\ step_log_fn_var' = "_logstep"
                    /\ stack' = <<NewFrame(rest, logstep_return(process),
                                           Fn("_logstep"))>>
                    /\ result' = NoProcess
    /\ UNCHANGED <<global_lock, now, pstat, invalidated>>
    /\ UNCHANGED algebraVars

\* `if executed_steps.overall_status == ProcessStatus.FAILED:
\*      invalidate_status_counts()`, then runwf returns what _exec_steps
\* returned; the process is loaded again.
runwf_return ==
    /\ Top = 1 /\ Frame.pc = "returned" /\ Frame.dblogstep.fn = "_logstep"
    /\ invalidated' = IF overall_status(Frame.process) = "failed"
                      THEN invalidated + 1 ELSE invalidated
    /\ result' = Frame.process
    /\ pstat' = [state |-> Frame.process, log |-> remaining_log(Frame)]
    /\ stack' = <<>>
    /\ UNCHANGED <<global_lock, now, db, trace, step_log_fn_var, runs>>
    /\ UNCHANGED algebraVars

\* Variant of abort_wf without the test for a completed process.
abort_wf_guard_none(state) == TRUE

\* Variant of abort_wf that also leaves an aborted process alone.
abort_wf_guard_terminal(state) == ~iscomplete(state) /\ ~isabort(state)

\* `if not pstat.state.iscomplete():`
abort_wf_guard(state) == ~iscomplete(state)

\* abort_wf(pstat, logstep)
abort_wf ==
    /\ stack = <<>> /\ runs < MaxRuns
    /\ runs' = runs + 1
    /\ LET called == Append(trace, TRun("abort_wf", pstat.state))
       IN  IF abort_wf_guard(pstat.state)
           THEN LET abort_func == make_step_function(Constructor("Abort"),
                                                     "User Aborted")
                    state == abort(pstat.state)
                IN  /\ db' = logstep(db, abort_func, state)
                    /\ trace' = Append(called, TLog(abort_func.name, state))
                    /\ result' = logstep_return(state)
                    /\ pstat' = [pstat EXCEPT !.state = logstep_return(state)]
           ELSE /\ result' = pstat.state
                /\ trace' = called
                /\ UNCHANGED <<db, pstat>>
    /\ UNCHANGED <<stack, global_lock, now, step_log_fn_var, invalidated>>
    /\ UNCHANGED algebraVars

WorkflowInit ==
    /\ ExecInit
    /\ AlgebraIdle
    /\ \E s \in StartStates, steps \in Workflows :
          pstat = [state |-> Success(s), log |-> steps]
    /\ db = <<>>
    /\ trace = <<>>
    /\ step_log_fn_var = "unset"
    /\ runs = 0
    /\ invalidated = 0

WorkflowNext ==
    \/ runwf
    \/ runwf_return
    \/ abort_wf
    \/ exec_steps_for
    \/ exec_steps_break
    \/ exec_steps_exhausted
    \/ exec_steps_paused
    \/ exec_steps_settings_error
    \/ exec_steps_stamp
    \/ exec_steps_execute_step
    \/ step_group_func
    \/ step_group_return
    \/ exec_steps_dblogstep
    \/ set_global_lock

WorkflowSpec == WorkflowInit /\ [][WorkflowNext]_vars

(***************************************************************************)
(* NestedSpec: the driver run on workflows whose groups hold a group, or   *)
(* two sub-steps of one name.                                              *)
(***************************************************************************)
QuietStep(name) == step_decorator(name, name :> "done", FALSE)

\* a group g of a, a group h of x (an input step) and y, and c; then e
wf_nested ==
    begin \o <<step_group("g", begin \o <<QuietStep("a"),
                                          step_group("h", begin \o
                                              <<inputstep("x"),
                                                QuietStep("y")>>),
                                          QuietStep("c")>>),
               QuietStep("e")>>

\* one group k of b (an input step), c, b (another input step) and d
wf_same_name ==
    begin \o <<step_group("k", begin \o <<inputstep("b"), QuietStep("c"),
                                          inputstep("b"), QuietStep("d")>>)>>

\* as wf_nested, with a first sub-step of h that is called a, as the sub-step
\* of g before h is
wf_nested_shared ==
    begin \o <<step_group("g", begin \o <<QuietStep("a"),
                                          step_group("h", begin \o
                                              <<QuietStep("a"),
                                                inputstep("x"),
                                                QuietStep("y")>>),
                                          QuietStep("c")>>),
               QuietStep("e")>>

NestedWorkflows == {wf_nested, wf_nested_shared, wf_same_name}

NestedInit ==
    /\ ExecInit
    /\ AlgebraIdle
    /\ \E s \in StartStates, steps \in NestedWorkflows :
          pstat = [state |-> Success(s), log |-> steps]
    /\ db = <<>>
    /\ trace = <<>>
    /\ step_log_fn_var = "unset"
    /\ runs = 0
    /\ invalidated = 0

NestedSpec == NestedInit /\ [][WorkflowNext]_vars

(***************************************************************************)
(* TerminationSpec: WorkflowSpec with a fair executor.  runwf is          *)
(* sequential code: once it is called, its next statement is run as long  *)
(* as the steps and the log writer return, which they do in the model.    *)
(* When runwf or abort_wf is called, and when the engine is paused, is up *)
(* to the caller and the operator.                                        *)
(***************************************************************************)
\* The statements of runwf, _exec_steps and step_group.func up to the call of
\* dblogstep.
ExecutorStep ==
    \/ exec_steps_for
    \/ exec_steps_break
    \/ exec_steps_exhausted
    \/ exec_steps_paused
    \/ exec_steps_settings_error
    \/ exec_steps_stamp
    \/ exec_steps_execute_step
    \/ step_group_func
    \/ step_group_return
    \/ runwf_return

\* The call of dblogstep can be made exactly when _exec_steps is at it.
AtDblogstep == Running /\ Frame.pc = "log"

\* Weak fairness of exec_steps_dblogstep, with AtDblogstep for its ENABLED.
DblogstepReturns ==
    []<>(~AtDblogstep) \/ []<><<exec_steps_dblogstep>>_vars

\* A process is started on a workflow; the calls but the last two have been
\* spent.
TerminationInit ==
    /\ ExecInit
    /\ AlgebraIdle
    /\ \E steps \in Workflows \cup NestedWorkflows :
          pstat = [state |-> Success([process_id |-> "p"]), log |-> steps]
    /\ db = <<>>
    /\ trace = <<>>
    /\ step_log_fn_var = "unset"
    /\ runs = MaxRuns - 2
    /\ invalidated = 0

TerminationSpec ==
    /\ TerminationInit /\ [][WorkflowNext]_vars
    /\ WF_vars(ExecutorStep)
    /\ DblogstepReturns

(***************************************************************************)
(* ThreadSpec: runwf called in several threads at once, each on a process  *)
(* of its own.  A thread has its own context, so `step_log_fn_var` is a    *)
(* value per thread; a thread that has run one process runs another one    *)
(* later in the same context.  Here `stack[t]` is the position of thread t *)
(* in runwf, `pstat[t]` the ProcessStat its runwf was called with, and     *)
(* `db` the set of the results logged, each with the ProcessStat it was    *)
(* logged against.                                                         *)
(* The threads interleave between any two of the steps below.              *)
(***************************************************************************)
Threads == {"t1", "t2"}
ProcessIds == {"p1", "p2", "p3"}

\* a, then a group g of b
wf_thread ==
    begin \o <<QuietStep("a"), step_group("g", begin \o <<QuietStep("b")>>)>>

NoLogFn == [fn |-> "unset", pstat |-> "none"]

\* `def _logstep(*x): return logstep(pstat, *x)`: the closure over pstat.
_logstep(p) == [fn |-> "_logstep", pstat |-> p.id]

Idle == [pc |-> "idle", i |-> 0, j |-> 0, step_log_fn |-> NoLogFn]

\* The record the log writer stores when `fn` is called for step `name` by
\* the runwf call that runs process `running`.
Logged(fn, name, running, sub) ==
    [pstat |-> fn.pstat, name |-> name, running |-> running, sub |-> sub]

\* Variant in which the hook is one variable of the module, set for all.
step_log_fn_var_set_global(ctx, t, fn) == [u \in DOMAIN ctx |-> fn]

\* `step_log_fn_var.set(fn)` in the context of thread t.
step_log_fn_var_set(ctx, t, fn) == [ctx EXCEPT ![t] = fn]

\* Thread t calls runwf(pstat, logstep) on a process no other thread runs.
thread_runwf(t) ==
    /\ stack[t].pc = "idle" /\ runs < MaxRuns
    /\ \E id \in ProcessIds :
          /\ \A u \in Threads : pstat[u].id # id
          /\ pstat' = [pstat EXCEPT ![t] = [id |-> id, log |-> wf_thread]]
    /\ stack' = [stack EXCEPT ![t] = [Idle EXCEPT !.pc = "set"]]
    /\ runs' = runs + 1
    /\ UNCHANGED <<result, global_lock, now, db, trace, step_log_fn_var,
                   invalidated>>
    /\ UNCHANGED algebraVars

\* `step_log_fn_var.set(_logstep)`, then runwf calls _exec_steps.
thread_set(t) ==
    /\ stack[t].pc = "set"
    /\ step_log_fn_var' =
           step_log_fn_var_set(step_log_fn_var, t, _logstep(pstat[t]))
    /\ stack' = [stack EXCEPT ![t] = [@ EXCEPT !.pc = "for", !.i = 1]]
    /\ UNCHANGED <<result, global_lock, now, pstat, db, trace, runs,
                   invalidated>>
    /\ UNCHANGED algebraVars

\* _exec_steps runs a step that is not a group and logs its result with the
\* dblogstep it was given, runwf's own _logstep; a result that is not
\* Success ends the loop.
thread_exec_step(t) ==
    /\ stack[t].pc = "for" /\ stack[t].i <= Len(pstat[t].log)
    /\ pstat[t].log[stack[t].i].f.kind # "step_group"
    /\ db' = db \cup {Logged(_logstep(pstat[t]),
                              pstat[t].log[stack[t].i].name,
                              pstat[t].id, FALSE)}
    /\ \E ok \in BOOLEAN :
          stack' = [stack EXCEPT ![t] =
                       IF ok THEN [@ EXCEPT !.i = @ + 1]
                       ELSE [@ EXCEPT !.pc = "return"]]
    /\ UNCHANGED <<result, global_lock, now, pstat, trace, step_log_fn_var,
                   runs, invalidated>>
    /\ UNCHANGED algebraVars

\* _exec_steps enters a group: `step_log_fn = step_log_fn_var.get()`.
thread_step_group_func(t) ==
    /\ stack[t].pc = "for" /\ stack[t].i <= Len(pstat[t].log)
    /\ pstat[t].log[stack[t].i].f.kind = "step_group"
    /\ stack' = [stack EXCEPT ![t] =
                    [@ EXCEPT !.pc = "in step", !.j = 1,
                              !.step_log_fn = step_log_fn_var[t]]]
    /\ UNCHANGED <<result, global_lock, now, pstat, db, trace,
                   step_log_fn_var, runs, invalidated>>
    /\ UNCHANGED algebraVars

\* The group's _exec_steps runs a sub-step and logs it with the group's
\* dblogstep: `return step_log_fn(step_, p)`.
thread_step_group_dblogstep(t) ==
    /\ stack[t].pc = "in step"
    /\ LET steps == pstat[t].log[stack[t].i].f.steps
       IN  /\ stack[t].j <= Len(steps)
           /\ db' = db \cup {Logged(stack[t].step_log_fn,
                                     steps[stack[t].j].name,
                                     pstat[t].id, TRUE)}
           /\ \E ok \in BOOLEAN :
                 stack' = [stack EXCEPT ![t] =
                              IF ok THEN [@ EXCEPT !.j = @ + 1]
                              ELSE [@ EXCEPT !.j = Len(steps) + 1]]
    /\ UNCHANGED <<result, global_lock, now, pstat, trace, step_log_fn_var,
                   runs, invalidated>>
    /\ UNCHANGED algebraVars

\* The group returns and _exec_steps logs it, with runwf's own _logstep.
thread_step_group_return(t) ==
    /\ stack[t].pc = "in step"
    /\ stack[t].j > Len(pstat[t].log[stack[t].i].f.steps)
    /\ db' = db \cup {Logged(_logstep(pstat[t]),
                              pstat[t].log[stack[t].i].name,
                              pstat[t].id, FALSE)}
    /\ stack' = [stack EXCEPT ![t] =
                    [@ EXCEPT !.pc = "for", !.i = @ + 1, !.j = 0,
                              !.step_log_fn = NoLogFn]]
    /\ UNCHANGED <<result, global_lock, now, pstat, trace, step_log_fn_var,
                   runs, invalidated>>
    /\ UNCHANGED algebraVars

\* _exec_steps and runwf return; the thread is free for another process.
thread_return(t) ==
    /\ \/ stack[t].pc = "return"
       \/ stack[t].pc = "for" /\ stack[t].i > Len(pstat[t].log)
    /\ stack' = [stack EXCEPT ![t] = Idle]
    /\ pstat' = [pstat EXCEPT ![t] = [id |-> "none", log |-> <<>>]]
    /\ UNCHANGED <<result, global_lock, now, db, trace, step_log_fn_var,
                   runs, invalidated>>
    /\ UNCHANGED algebraVars

ThreadInit ==
    /\ stack = [t \in Threads |-> Idle]
    /\ pstat = [t \in Threads |-> [id |-> "none", log |-> <<>>]]
    /\ step_log_fn_var = [t \in Threads |-> NoLogFn]
    /\ db = {}
    /\ trace = <<>>
    /\ runs = 0
    /\ invalidated = 0
    /\ result = NoProcess
    /\ global_lock = FALSE
    /\ now = 1
    /\ AlgebraIdle

ThreadNext ==
    \E t \in Threads :
        \/ thread_runwf(t)
        \/ thread_set(t)
        \/ thread_exec_step(t)
        \/ thread_step_group_func(t)
        \/ thread_step_group_dblogstep(t)
        \/ thread_step_group_return(t)
        \/ thread_return(t)

ThreadSpec == ThreadInit /\ [][ThreadNext]_vars

(***************************************************************************)
(* AlgebraSpec: execute_step, resume and abort applied, up to MaxOps in a  *)
(* row, to a process of any variant.  `out` is the process in hand (the    *)
(* input, then each result), `recv` the receiver of the combinator applied *)
(* last, `op` the combinators applied so far and `calls` the calls the     *)
(* last one made of its callable argument.                                 *)
(***************************************************************************)
\* What resume_suspend may return for the process it is given.
ResumeOutcomes == {"Success", "Failed", "Suspend"}

ResumeReturn(given, o) ==
    IF o = "Failed" THEN Failed([error |-> "not allowed"])
    ELSE [tag |-> o, s |-> given.s]

CanApply == out.tag \in Tags /\ Len(op) < MaxOps

apply_execute_step ==
    /\ CanApply
    /\ LET step == PlainStep("a")
           r == execute_step(out, step)
       IN  IF IsCall(r)
           THEN \E o \in Outcomes :
                  LET ret == IF o = "raise"
                             THEN Raised(ExceptionOf(step.name))
                             ELSE StepReturn(step, r.a, o)
                  IN  /\ calls' = <<CallRec(r.call, r.a, ret)>>
                      /\ out' = ret
           ELSE /\ calls' = <<>>
                /\ out' = r
    /\ recv' = out
    /\ op' = Append(op, "execute_step")
    /\ UNCHANGED execVars
    /\ UNCHANGED wfVars

apply_resume ==
    /\ CanApply
    /\ LET r == resume(out, "resume_suspend")
       IN  IF IsCall(r)
           THEN \E o \in ResumeOutcomes :
                  /\ calls' = <<CallRec(r.call, r.a, ResumeReturn(r.a, o))>>
                  /\ out' = ResumeReturn(r.a, o)
           ELSE /\ calls' = <<>>
                /\ out' = r
    /\ recv' = out
    /\ op' = Append(op, "resume")
    /\ UNCHANGED execVars
    /\ UNCHANGED wfVars

apply_abort ==
    /\ CanApply
    /\ out' = abort(out)
    /\ calls' = <<>>
    /\ recv' = out
    /\ op' = Append(op, "abort")
    /\ UNCHANGED execVars
    /\ UNCHANGED wfVars

\* The functions handed to map: a dictionary update, error_state_to_dict and
\* the identity.
MapFunctions == {Merge([k |-> "v"]), Fn("error_state_to_dict"), identity}

\* self.map(f)
apply_map ==
    /\ CanApply
    /\ \E f \in MapFunctions :
          /\ out' = map(out, f)
          /\ calls' = <<CallRec(f, out.s, Apply(f, out.s))>>
    /\ recv' = out
    /\ op' = Append(op, "map")
    /\ UNCHANGED execVars
    /\ UNCHANGED wfVars

\* self.unwrap()
apply_unwrap ==
    /\ CanApply
    /\ calls' = <<CallRec("unwrap", out, [returned |-> unwrap(out)])>>
    /\ recv' = out
    /\ op' = Append(op, "unwrap")
    /\ UNCHANGED out
    /\ UNCHANGED execVars
    /\ UNCHANGED wfVars

\* self.issuccess(), self.isskipped(), ... self.iscomplete()
apply_predicates ==
    /\ CanApply
    /\ calls' = [k \in 1..Len(Predicates) |->
                    CallRec(Predicates[k], out,
                            [returned |-> CallPredicate(Predicates[k], out)])]
    /\ recv' = out
    /\ op' = Append(op, "is")
    /\ UNCHANGED out
    /\ UNCHANGED execVars
    /\ UNCHANGED wfVars

AlgebraInit ==
    /\ stack = <<>>
    /\ result = NoProcess
    /\ global_lock = FALSE
    /\ now = 1
    /\ recv = NoProcess
    /\ op = <<>>
    /\ out \in StartProcesses
    /\ calls = <<>>
    /\ WfIdle

AlgebraNext ==
    \/ apply_execute_step
    \/ apply_resume
    \/ apply_abort
    \/ apply_map
    \/ apply_unwrap
    \/ apply_predicates

AlgebraSpec == AlgebraInit /\ [][AlgebraNext]_vars

(***************************************************************************)
(* StepSpec: one step, built by one of the decorators and wrappers, called *)
(* as a function with a state.  `recv` is the state, `op` the step called, *)
(* `out` what the call returned (or raised) and `calls` the calls it made  *)
(* of the steps it wraps.                                                  *)
(***************************************************************************)
\* The states a step is called with: with and without the sub-state "sub".
StepStates ==
    StartStates
    \cup {("sub" :> [y |-> "done"]) @@ s : s \in StartStates}

\* The steps: decorated functions that may raise, an input step, and steps
\* wrapped by conditional and by focussteps("sub").
Steps ==
    LET plain == begin \o <<PlainStep("a"), UserStep("b"),
                            retrystep("c", "c" :> "done", TRUE),
                            inputstep("u")>>
    IN  Range(plain) \cup Range(focussteps("sub", plain))
        \cup {conditional([key |-> "x"], UserStep("a"))}

\* step(state)
call_step ==
    /\ op = <<>>
    /\ \E step \in Steps :
          \E run \in StepRuns(step, recv) :
             /\ op' = <<step>>
             /\ out' = run.ret
             /\ calls' = run.called
    /\ UNCHANGED recv
    /\ UNCHANGED execVars
    /\ UNCHANGED wfVars

StepInit ==
    /\ ExecInit
    /\ WfIdle
    /\ recv \in StepStates
    /\ op = <<>>
    /\ out = NoProcess
    /\ calls = <<>>

StepNext == call_step

StepSpec == StepInit /\ [][StepNext]_vars

(***************************************************************************)
(* ListSpec: the operator >> of StepList.  The lists are objects: `recv`   *)
(* is the heap (the list with identity i is recv[i]), `out` the operands   *)
(* of the expression x1 >> x2 >> x3 still to be combined, `op` the order   *)
(* in which the two >> were evaluated and `calls` the calls of __rshift__  *)
(* made: the heap before the call, the operands and what it returned.      *)
(***************************************************************************)
MaxLen == 2        \* longest operand of >>

\* The values >> is applied to: a StepList (by identity), a Step, and a
\* function that @step has not decorated.
StepListRef(id) == [type |-> "StepList", id |-> id]
StepObj(step) == [type |-> "Step", v |-> step]
FunctionObj(name) == [type |-> "function", v |-> [__name__ |-> name]]
RaisedObj(x) == [type |-> "Raised", v |-> x]

\* Variant of __rshift__ that extends the receiver and returns it.
rshift_in_place(heap, self, other) ==
    CASE other.type = "Step" ->
            [heap |-> [heap EXCEPT ![self] = Append(@, other.v)],
             ret |-> StepListRef(self)]
      [] other.type = "StepList" ->
            [heap |-> [heap EXCEPT ![self] = @ \o heap[other.id]],
             ret |-> StepListRef(self)]
      [] OTHER -> [heap |-> heap, ret |-> RaisedObj(ExceptionOf("ValueError"))]

\* StepList.__rshift__(self, other): `StepList([*self, other])` for a Step,
\* `StepList([*self, *other])` for a StepList, ValueError for anything else.
\* The result is a list made by the call.
__rshift__(heap, self, other) ==
    CASE other.type = "Step" ->
            [heap |-> Append(heap, Append(heap[self], other.v)),
             ret |-> StepListRef(Len(heap) + 1)]
      [] other.type = "StepList" ->
            [heap |-> Append(heap, heap[self] \o heap[other.id]),
             ret |-> StepListRef(Len(heap) + 1)]
      [] OTHER -> [heap |-> heap, ret |-> RaisedObj(ExceptionOf("ValueError"))]

ListSteps == {PlainStep("a"), PlainStep("b")}

RshiftCall(heap, self, other, ret) ==
    CallRec("__rshift__", [heap |-> heap, self |-> self, other |-> other], ret)

NoneRaised == \A k \in 1..Len(out) : out[k].type # "Raised"

\* (x1 >> x2) ...: the first two operands are combined.
rshift_left ==
    /\ Len(out) >= 2 /\ NoneRaised
    /\ out[1].type = "StepList"
    /\ LET r == __rshift__(recv, out[1].id, out[2])
       IN  /\ recv' = r.heap
           /\ out' = <<r.ret>> \o SubSeq(out, 3, Len(out))
           /\ calls' = Append(calls, RshiftCall(recv, out[1], out[2], r.ret))
    /\ op' = Append(op, "left")
    /\ UNCHANGED execVars
    /\ UNCHANGED wfVars

\* x1 >> (x2 >> x3): the last two operands are combined first.
rshift_right ==
    /\ Len(out) = 3 /\ NoneRaised
    /\ out[2].type = "StepList"
    /\ LET r == __rshift__(recv, out[2].id, out[3])
       IN  /\ recv' = r.heap
           /\ out' = <<out[1], r.ret>>
           /\ calls' = Append(calls, RshiftCall(recv, out[2], out[3], r.ret))
    /\ op' = Append(op, "right")
    /\ UNCHANGED execVars
    /\ UNCHANGED wfVars

ListInit ==
    /\ ExecInit
    /\ WfIdle
    /\ recv \in [1..3 -> SeqsUpTo(ListSteps, MaxLen)]
    /\ out \in {<<StepListRef(1), x2, x3>> :
                   x2 \in {StepListRef(1), StepListRef(2),
                           StepObj(PlainStep("b"))},
                   x3 \in {StepListRef(2), StepListRef(3),
                           StepObj(PlainStep("a")), FunctionObj("f")}}
    /\ op = <<>>
    /\ calls = <<>>

ListNext ==
    \/ rshift_left
    \/ rshift_right

ListSpec == ListInit /\ [][ListNext]_vars

(***************************************************************************)
(* Properties of _exec_steps (Spec).  They are stated of every frame, that *)
(* is of every call of _exec_steps, at every point of its execution.       *)
(***************************************************************************)
Continuable == {"Success", "Skipped"}

IsLast(f, k) == k = Len(f.ev)

\* The log calls of a frame, in order.
Logs(f) == SelectSeq(f.ev, LAMBDA e : e.e = "log")

\* The value of `process` at the top of the loop: the starting process, then
\* what the latest call of the log function returned.
LoggedProcess(f) ==
    IF Logs(f) = <<>> THEN f.starting_process ELSE Logs(f)[Len(Logs(f))].got

\* The value of `process` when event k happened.
ProcessBefore(f, k) == LoggedProcess([f EXCEPT !.ev = SubSeq(f.ev, 1, k - 1)])

\* C1: a step is invoked only while `process` is Success or Skipped; once the
\* log function has returned another variant nothing more is invoked or
\* logged in that run, and that process is what the run returns.
C1_OnlyWhileContinuable ==
    \A n \in 1..Len(stack) :
        LET f == stack[n]
        IN  \A k \in 1..Len(f.ev) :
              /\ f.ev[k].e = "invoke" =>
                    ProcessBefore(f, k).tag \in Continuable
              /\ (f.ev[k].e = "log" /\ f.ev[k].got.tag \notin Continuable) =>
                    /\ IsLast(f, k)
                    /\ f.pc \in {"for", "returned"}
                    /\ f.process = f.ev[k].got
                    /\ (n = 1 /\ f.pc = "returned") => result = f.ev[k].got

\* The first of three steps ended in Suspend; the run returned that process
\* with the two other steps neither invoked nor logged.
C1_Witness ==
    /\ Top = 1
    /\ Frame.pc = "returned"
    /\ Len(Frame.steps) = 3
    /\ Len(Frame.ev) = 3
    /\ Frame.ev[3].e = "log"
    /\ Frame.ev[3].got.tag = "Suspend"
    /\ result = Frame.ev[3].got

\* C2: started with a process that is not Success or Skipped, _exec_steps
\* returns that very process, invokes no step and never calls the log function.
C2_ShortCircuit ==
    \A n \in 1..Len(stack) :
        LET f == stack[n]
        IN  f.starting_process.tag \notin Continuable =>
              /\ f.ev = <<>>
              /\ f.pc \in {"for", "returned"}
              /\ f.process = f.starting_process
              /\ (n = 1 /\ f.pc = "returned") => result = f.starting_process

\* A run over three steps that started from a Waiting process has returned it.
C2_Witness ==
    /\ Top = 1
    /\ Frame.pc = "returned"
    /\ Len(Frame.steps) = 3
    /\ Frame.starting_process.tag = "Waiting"
    /\ Frame.ev = <<>>
    /\ result = Frame.starting_process

\* C4: the loop goes on with what the log function returned, not with the
\* step's own result; a Success that the log function answers with Failed
\* ends the run, which returns that Failed process.
C4_LogResultIsAuthoritative ==
    \A n \in 1..Len(stack) :
        LET f == stack[n]
        IN  /\ f.pc \in {"for", "try", "returned"} =>
                  f.process = LoggedProcess(f)
            /\ \A k \in 1..Len(f.ev) :
                  (/\ f.ev[k].e = "log"
                   /\ f.ev[k].given.tag = "Success"
                   /\ f.ev[k].got.tag = "Failed") =>
                      /\ IsLast(f, k)
                      /\ f.pc \in {"for", "returned"}
                      /\ (n = 1 /\ f.pc = "returned") => result = f.ev[k].got

\* The second of three steps returned Success, the log function answered
\* Failed, and the run returned that Failed without invoking the third step.
C4_Witness ==
    /\ Top = 1
    /\ Frame.pc = "returned"
    /\ Len(Frame.steps) = 3
    /\ Len(Frame.ev) = 6
    /\ Frame.ev[5].e = "return" /\ Frame.ev[5].got.tag = "Success"
    /\ Frame.ev[6].e = "log" /\ Frame.ev[6].given.tag = "Success"
    /\ Frame.ev[6].got.tag = "Failed"
    /\ result = Frame.ev[6].got

\* C5: every invoked step is logged exactly once, after it has returned and
\* before the next step is invoked, and the logged steps are the first steps
\* of the list, in list order.
C5_LoggedInStepOrder ==
    \A n \in 1..Len(stack) :
        LET f == stack[n]
        IN  /\ \A j \in 1..Len(Logs(f)) : Logs(f)[j].i = j
            /\ Len(Logs(f)) <= Len(f.steps)
            /\ \A k \in 1..Len(f.ev) :
                  f.ev[k].e = "invoke" =>
                      \* all earlier steps have been logged ...
                      /\ Len(Logs([f EXCEPT !.ev = SubSeq(f.ev, 1, k - 1)]))
                            = f.ev[k].i - 1
                      \* ... the step has returned or raised ...
                      /\ k + 1 <= Len(f.ev)
                      /\ f.ev[k + 1].e \in {"return", "raise"}
                      /\ f.ev[k + 1].i = f.ev[k].i
                      \* ... and is logged next, or is about to be.
                      /\ IF k + 2 <= Len(f.ev)
                         THEN /\ f.ev[k + 2].e = "log"
                              /\ f.ev[k + 2].i = f.ev[k].i
                         ELSE f.pc = "log" /\ f.i = f.ev[k].i

\* All three steps of a list were invoked and logged, one after the other.
C5_Witness ==
    /\ Top = 1
    /\ Frame.pc = "returned"
    /\ Len(Frame.steps) = 3
    /\ [k \in 1..Len(Frame.ev) |-> <<Frame.ev[k].e, Frame.ev[k].i>>]
         = << <<"invoke", 1>>, <<"return", 1>>, <<"log", 1>>,
              <<"invoke", 2>>, <<"return", 2>>, <<"log", 2>>,
              <<"invoke", 3>>, <<"return", 3>>, <<"log", 3>> >>

\* C6: when global_lock is seen set at a step boundary the run returns the
\* process it had there, which is Success or Skipped and is what the log
\* function returned last (the starting process before the first step); the
\* step at the boundary and the later ones are neither invoked nor logged.
C6_PausedAtBoundary ==
    \A n \in 1..Len(stack) :
        LET f == stack[n]
        IN  f.paused =>
              /\ f.pc = "returned"
              /\ f.process.tag \in Continuable
              /\ f.process = LoggedProcess(f)
              /\ f.i <= Len(f.steps)
              /\ \A k \in 1..Len(f.ev) : f.ev[k].i < f.i
              /\ n = 1 => result = f.process

\* The lock was seen before the second of three steps: the run returned the
\* Success logged for the first step.
C6_Witness ==
    /\ Top = 1
    /\ Frame.paused
    /\ Len(Frame.steps) = 3
    /\ Frame.i = 2
    /\ Len(Frame.ev) = 3
    /\ Frame.ev[3].e = "log"
    /\ result = Frame.ev[3].got
    /\ result.tag = "Success"

\* C7: a step that raises counts as Failed carrying the exception: it is
\* logged once, as Failed, nothing is invoked after it, and when the log
\* function returns what it was given the run returns that Failed process.
C7_RaiseBecomesFailed ==
    \A n \in 1..Len(stack) :
        LET f == stack[n]
        IN  \A k \in 1..Len(f.ev) :
              f.ev[k].e = "raise" =>
                  LET failed == Failed(error_state_to_dict(f.ev[k].got.s))
                  IN  /\ \A m \in (k + 1)..Len(f.ev) :
                            /\ m = k + 1
                            /\ f.ev[m].e = "log"
                            /\ f.ev[m].i = f.ev[k].i
                            /\ f.ev[m].given = failed
                      /\ IsLast(f, k) =>
                            /\ f.pc = "log"
                            /\ f.step_result_process = Failed(f.ev[k].got.s)
                      /\ (f.pc = "returned" /\ f.ev[k + 1].got = f.ev[k + 1].given) =>
                            /\ f.process = failed
                            /\ n = 1 => result = failed

\* The second of three steps raised; it was logged as Failed, the third step
\* was not invoked and the run returned Failed.
C7_Witness ==
    /\ Top = 1
    /\ Frame.pc = "returned"
    /\ Len(Frame.steps) = 3
    /\ Len(Frame.ev) = 6
    /\ Frame.ev[5].e = "raise"
    /\ Frame.ev[6].e = "log" /\ Frame.ev[6].got = Frame.ev[6].given
    /\ result.tag = "Failed"
    /\ result.s = [class |-> "Exception", error |-> "b"]

(***************************************************************************)
(* Properties of the Process combinators (AlgebraSpec).                    *)
(***************************************************************************)
LastOp == IF op = <<>> THEN "none" ELSE op[Len(op)]

\* C3: execute_step on Success(s) or Skipped(s) enters step exactly once, with
\* s, and returns what step returns; on each of the six other variants it
\* does not enter step and returns the same variant carrying the same state.
C3_ExecuteStep ==
    LastOp = "execute_step" =>
        IF recv.tag \in {"Success", "Skipped"}
        THEN /\ Len(calls) = 1
             /\ calls[1].c = PlainStep("a")
             /\ calls[1].a = recv.s
             /\ out = calls[1].ret
        ELSE /\ calls = <<>>
             /\ out.tag = recv.tag
             /\ out.s = recv.s

\* A step entered from Success returned Suspend, and execute_step on that
\* Suspend process left it as it was without entering the step again.
C3_Witness ==
    /\ op = <<"execute_step", "execute_step">>
    /\ recv = Suspend([process_id |-> "p", a |-> "done"])
    /\ calls = <<>>
    /\ out = recv

\* C8: resume enters resume_suspend exactly when the receiver is Suspend or
\* AwaitingCallback, with Success(s), and returns what it returns; on Success,
\* Skipped, Waiting and Failed it returns Success(s) without entering it.
C8_Resume ==
    LastOp = "resume" =>
        /\ recv.tag \in {"Suspend", "AwaitingCallback"} =>
              /\ Len(calls) = 1
              /\ calls[1].c = "resume_suspend"
              /\ calls[1].a = Success(recv.s)
              /\ out = calls[1].ret
        /\ recv.tag \notin {"Suspend", "AwaitingCallback"} => calls = <<>>
        /\ recv.tag \in {"Success", "Skipped", "Waiting", "Failed"} =>
              out = Success(recv.s)

\* An AwaitingCallback process was resumed and resume_suspend answered Failed.
C8_Witness ==
    /\ LastOp = "resume"
    /\ recv.tag = "AwaitingCallback"
    /\ Len(calls) = 1
    /\ out.tag = "Failed"

\* C9: resume on Abort(s) returns Abort(s) and on Complete(s) returns
\* Complete(s), without entering resume_suspend.
C9_ResumeTerminal ==
    (LastOp = "resume" /\ recv.tag \in {"Abort", "Complete"}) =>
        /\ out = recv
        /\ calls = <<>>

\* A process was aborted and then resumed: it is still the same Abort(s).
C9_Witness ==
    /\ op = <<"abort", "resume">>
    /\ recv.tag = "Abort"
    /\ out = recv

\* C10: abort returns Abort(s) for every variant but Complete and Complete(s)
\* for Complete, and a second abort returns what the first returned.
C10_Abort ==
    LastOp = "abort" =>
        /\ out = IF recv.tag = "Complete" THEN Complete(recv.s) ELSE Abort(recv.s)
        /\ (Len(op) >= 2 /\ op[Len(op) - 1] = "abort") => out = recv

\* abort was applied twice in a row and the second changed nothing.
C10_Witness ==
    /\ op = <<"abort", "abort">>
    /\ recv.tag = "Abort"
    /\ out = recv

(***************************************************************************)
(* Properties of the driver (WorkflowSpec).  `trace` holds, in order, each *)
(* call of runwf and abort_wf with the process it was made on, each step   *)
(* entered and each call of the log writer.                                *)
(***************************************************************************)
IsRun(e) == e.e \in {"runwf", "abort_wf"}
IsEntry(e) == e.e \in {"invoke", "called"}

\* The position in `trace` of the latest call of runwf or abort_wf (0: none).
LastRun ==
    IF \E k \in 1..Len(trace) : IsRun(trace[k])
    THEN CHOOSE k \in 1..Len(trace) :
            IsRun(trace[k]) /\ \A j \in (k + 1)..Len(trace) : ~IsRun(trace[j])
    ELSE 0

\* What has happened since the latest call of runwf or abort_wf was made.
ThisRun == SubSeq(trace, LastRun + 1, Len(trace))

\* The names of the steps entered in a piece of trace, in order.
RECURSIVE Entered(_)
Entered(tr) ==
    IF tr = <<>> THEN <<>>
    ELSE IF IsEntry(Head(tr)) THEN <<Head(tr).name>> \o Entered(Tail(tr))
    ELSE Entered(Tail(tr))

\* The calls of the log writer in a piece of trace, in order.
Written(tr) == SelectSeq(tr, LAMBDA e : e.e = "logstep")

\* C11: once runwf or abort_wf is called on a Complete or Abort process, every
\* later call is made on, and returns, a process of that same variant, and
\* no step is entered any more.
C11_TerminalStaysTerminal ==
    \A k \in 1..Len(trace) :
        (IsRun(trace[k]) /\ trace[k].p.tag \in {"Complete", "Abort"}) =>
            /\ \A j \in (k + 1)..Len(trace) :
                  /\ ~IsEntry(trace[j])
                  /\ IsRun(trace[j]) => trace[j].p.tag = trace[k].p.tag
            /\ pstat.state.tag = trace[k].p.tag
            /\ \A n \in 1..Len(stack) : stack[n].process.tag = trace[k].p.tag
            /\ stack = <<>> => result.tag = trace[k].p.tag

\* A process with steps left was aborted, run and aborted again: the run
\* entered none of the steps and the process is still Abort.
C11_Witness ==
    /\ runs = 3
    /\ stack = <<>>
    /\ Len(pstat.log) >= 2
    /\ trace[1].e = "abort_wf"
    /\ \E k \in 2..Len(trace) :
          /\ trace[k] = TRun("runwf", pstat.state)
          /\ trace[Len(trace)].e = "logstep"
          /\ k < Len(trace) - 1
    /\ result.tag = "Abort"

\* The latest call, when it is a runwf: the process it was called on.
Resumed == IF LastRun = 0 THEN NoProcess ELSE trace[LastRun].p

ResumesHalted ==
    /\ LastRun > 0
    /\ trace[LastRun].e = "runwf"
    /\ Resumed.tag \in {"Suspend", "AwaitingCallback"}
    /\ stack # <<>>

\* C12: while runwf runs on a Suspend or AwaitingCallback process whose state
\* has no __step_group, the first thing it did was to log the head of
\* pstat.log with Success(state); that step is logged once and is not
\* entered, _exec_steps got the list without it, and the first step entered
\* is the one that followed it.
C12_ResumePopsHead ==
    (ResumesHalted /\ "__step_group" \notin DOMAIN Resumed.s) =>
        LET head == Head(pstat.log)
        IN  /\ ThisRun[1] = TLog(head.name, Success(Resumed.s))
            /\ Len(SelectSeq(ThisRun, LAMBDA e : e.e = "logstep"
                                                  /\ e.name = head.name)) = 1
            /\ \A k \in 1..Len(ThisRun) :
                  IsEntry(ThisRun[k]) => ThisRun[k].name # head.name
            /\ stack[1].steps = Tail(pstat.log)
            /\ stack[1].starting_process = Success(Resumed.s)
            /\ Entered(ThisRun) # <<>> =>
                  Entered(ThisRun)[1] = pstat.log[2].name

\* The input step u had suspended the process; the run that resumed it logged
\* u with Success and went on to enter the step after it.
C12_Witness ==
    /\ ResumesHalted
    /\ Resumed.tag = "Suspend"
    /\ "__step_group" \notin DOMAIN Resumed.s
    /\ Head(pstat.log).name = "u"
    /\ Entered(ThisRun) = <<"w">>
    /\ Len(Written(ThisRun)) = 2
    /\ Top = 1 /\ Frame.pc = "returned"

\* The position of the step called `name` in a list (0: none).
IndexOf(name, steps) ==
    IF \E k \in 1..Len(steps) : steps[k].name = name
    THEN CHOOSE k \in 1..Len(steps) :
            steps[k].name = name /\ \A j \in 1..(k - 1) : steps[j].name # name
    ELSE 0

Names(steps) == [k \in 1..Len(steps) |-> steps[k].name]

\* The names of the steps a frame has entered, in order.
Invoked(f) ==
    LET entries == SelectSeq(f.ev, LAMBDA e : e.e = "invoke")
    IN  [k \in 1..Len(entries) |-> f.steps[entries[k].i].name]

IsPrefix(q, r) == Len(q) <= Len(r) /\ q = SubSeq(r, 1, Len(q))

\* Frame n belongs to a group: the step its caller is inside of.
InGroup(n) == n >= 2 /\ stack[n - 1].pc = "in step"
GroupOf(n) == stack[n - 1].steps[stack[n - 1].i]
\* The state the group was called with.
InitialState(n) == stack[n].starting_process.s

\* All of a frame's steps were run and the last one succeeded.
RanToEnd(f) ==
    f.pc = "returned" /\ ~f.paused /\ f.i > Len(f.steps) /\ issuccess(f.process)

\* C14: a group of a, b, c, d called with __sub_step = b runs the list c, d
\* (and its exit step): it enters them in that order, c and then d when both
\* succeed, and never a or b; called without __sub_step it runs a, b, c, d
\* between its enter and exit steps, all four in order when they succeed.
C14_GroupSubList ==
    \A n \in 1..Len(stack) :
        (InGroup(n) /\ Names(GroupOf(n).f.steps)
                          = <<"g - Enter", "a", "b", "c", "d", "g - Exit">>) =>
            LET f == stack[n]
                s == InitialState(n)
            IN  /\ IsPrefix(Invoked(f), Names(f.steps))
                /\ RanToEnd(f) => Invoked(f) = Names(f.steps)
                /\ ("__sub_step" \in DOMAIN s /\ s["__sub_step"] = "b") =>
                      Names(f.steps) = <<"c", "d", "g - Exit">>
                /\ "__sub_step" \notin DOMAIN s =>
                      Names(f.steps)
                          = <<"g - Enter", "a", "b", "c", "d", "g - Exit">>

\* The group was called with __sub_step = b and has entered c, d and its exit
\* step, and nothing else.
C14_Witness ==
    /\ InGroup(Top)
    /\ "__sub_step" \in DOMAIN InitialState(Top)
    /\ InitialState(Top)["__sub_step"] = "b"
    /\ RanToEnd(Frame)
    /\ Invoked(Frame) = <<"c", "d", "g - Exit">>

\* The group was called without __sub_step and has entered a, b, c and d.
C14_WitnessFull ==
    /\ InGroup(Top)
    /\ "__sub_step" \notin DOMAIN InitialState(Top)
    /\ RanToEnd(Frame)
    /\ Invoked(Frame) = <<"g - Enter", "a", "b", "c", "d", "g - Exit">>

\* C15: when a group's _exec_steps has returned, what the group returns has
\* the variant of the result of the last sub-step it ran, and it is Success
\* only if every sub-step of its list was run and ended in Success.
C15_GroupVariant ==
    \A n \in 1..Len(stack) :
        (InGroup(n) /\ stack[n].pc = "returned") =>
            LET f == stack[n]
                ret == step_group_returns(
                           f.process, stack[n - 1].func.step_group_start_time)
            IN  /\ Logs(f) # <<>> =>
                      ret.tag = Logs(f)[Len(Logs(f))].given.tag
                /\ issuccess(ret) =>
                      /\ Len(Logs(f)) = Len(f.steps)
                      /\ \A k \in 1..Len(Logs(f)) :
                            Logs(f)[k].given.tag = "Success"

(***************************************************************************)
(* Properties of callback_step, on the workflow wf_callback.               *)
(***************************************************************************)
CallbackNames ==
    <<"cb - Enter", "cb - Create endpoint", "action", "cb - Await callback",
      "validate", "cb - Cleanup callback step", "cb - Exit">>

\* The latest call is a runwf whose list starts with the callback step.
RunsCallback ==
    /\ LastRun > 0
    /\ trace[LastRun].e = "runwf"
    /\ stack # <<>>
    /\ pstat.log # <<>>
    /\ Head(pstat.log).name = "cb"

\* The run has come back to runwf.
RunReturned == Top = 1 /\ Frame.pc = "returned"

Count(name, names) == Cardinality({k \in 1..Len(names) : names[k] = name})

\* The exit step of the callback group has run and its result has been logged
\* in this run.
CallbackLeft ==
    \E k \in 1..Len(ThisRun) :
        /\ ThisRun[k].e = "logstep"
        /\ ThisRun[k].name = "cb - Exit"
        /\ issuccess(ThisRun[k].p)

\* C17: a run that resumes a process awaiting the callback of the callback
\* step never enters the create-endpoint, action or await step again; inside
\* the group it runs the list validate, cleanup, exit in that order; and once
\* the exit step has been logged, each of the three was entered exactly once,
\* right after the group, and neither the record stored last nor the process
\* the run returns has __callback_token.
C17_CallbackResumes ==
    (RunsCallback /\ isawaitingcallback(Resumed)) =>
        LET entered == Entered(ThisRun)
            rest == SubSeq(CallbackNames, 5, 7)
        IN  /\ \A k \in 1..Len(entered) :
                  entered[k] \notin {CallbackNames[j] : j \in 1..4}
            /\ \A n \in 1..Len(stack) :
                  InGroup(n) =>
                      /\ Names(stack[n].steps) = rest
                      /\ IsPrefix(Invoked(stack[n]), rest)
            /\ CallbackLeft =>
                  /\ IsPrefix(<<"cb">> \o rest, entered)
                  /\ \A j \in 1..3 : Count(rest[j], entered) = 1
                  /\ CALLBACK_TOKEN_KEY \notin DOMAIN db[Len(db)].state
                  /\ RunReturned =>
                        CALLBACK_TOKEN_KEY \notin DOMAIN result.s

\* The callback arrived and the run that resumed the process went through
\* validate, cleanup and exit to Done; the last record has no token.
C17_Witness ==
    /\ RunsCallback
    /\ isawaitingcallback(Resumed)
    /\ CALLBACK_TOKEN_KEY \in DOMAIN Resumed.s
    /\ RunReturned
    /\ Entered(ThisRun) = <<"cb">> \o SubSeq(CallbackNames, 5, 7) \o <<"Done">>
    /\ iscomplete(result)
    /\ db[Len(db)].name = "Done"
    /\ CALLBACK_TOKEN_KEY \notin DOMAIN db[Len(db)].state

(***************************************************************************)
(* Properties of abort_wf.                                                 *)
(***************************************************************************)
\* The record the log writer stores for the step "User Aborted".
UserAborted(state) ==
    [name |-> "User Aborted", status |-> "Abort", state |-> state]

\* C18: after a call of abort_wf on a Complete process nothing was logged and
\* the process is returned as it was; after a call on any other process the
\* one thing done was a call of the log writer with the step "User Aborted"
\* and Abort(state), whose answer is returned; no step was entered.
C18_AbortWf ==
    (LastRun > 0 /\ trace[LastRun].e = "abort_wf") =>
        IF iscomplete(Resumed)
        THEN /\ ThisRun = <<>>
             /\ result = Resumed
        ELSE /\ ThisRun = <<TLog("User Aborted", Abort(Resumed.s))>>
             /\ result = logstep_return(Abort(Resumed.s))
             /\ db[Len(db)] = UserAborted(result.s)

\* abort_wf was called on a process that had completed: nothing was logged
\* in that call and the process came back as Complete.
C18_Witness ==
    /\ LastRun > 1
    /\ trace[LastRun].e = "abort_wf"
    /\ iscomplete(Resumed)
    /\ ThisRun = <<>>
    /\ result = Resumed
    /\ db[Len(db)].name = "Done"

\* A step of the model is a call of abort_wf.
IsAbortWf ==
    /\ Len(trace') > Len(trace)
    /\ trace'[Len(trace) + 1].e = "abort_wf"

\* C19 as stated: abort_wf on a suspended process appends the record
\* ("User Aborted", Abort(state)), and abort_wf on an aborted process stores
\* nothing and changes nothing.
C19_AbortTwiceNoOp ==
    [][IsAbortWf =>
          /\ issuspend(pstat.state) =>
                /\ db' = Append(db, UserAborted(pstat.state.s))
                /\ result' = Abort(pstat.state.s)
          /\ isabort(pstat.state) =>
                /\ db' = db
                /\ pstat' = pstat
                /\ result' = pstat.state]_vars

\* C19, amended: abort_wf on a suspended process appends the record
\* ("User Aborted", Abort(state)); abort_wf on an aborted process leaves the
\* process as it is and appends that record once more.
C19_AbortTwiceLogsAgain ==
    [][IsAbortWf =>
          /\ issuspend(pstat.state) =>
                /\ db' = Append(db, UserAborted(pstat.state.s))
                /\ result' = Abort(pstat.state.s)
          /\ isabort(pstat.state) =>
                /\ db' = Append(db, UserAborted(pstat.state.s))
                /\ pstat' = pstat
                /\ result' = pstat.state]_vars

\* A suspended process was aborted, and aborted again: the log ends with two
\* records ("User Aborted", Abort(state)).
C19_Witness ==
    /\ Len(trace) >= 5
    /\ trace[Len(trace) - 3].e = "abort_wf"
    /\ issuspend(trace[Len(trace) - 3].p)
    /\ trace[Len(trace) - 1].e = "abort_wf"
    /\ isabort(trace[Len(trace) - 1].p)
    /\ Len(db) >= 2
    /\ db[Len(db)] = UserAborted(pstat.state.s)
    /\ db[Len(db) - 1] = db[Len(db)]

(***************************************************************************)
(* Properties of conditional, on the workflow wf_conditional.              *)
(***************************************************************************)
Stamp == {"__last_step_started_at"}

C20_WitnessCalled ==
    /\ Top = 1
    /\ Len(Frame.ev) >= 3
    /\ Frame.steps[1].f.kind = "conditional"
    /\ "x" \in DOMAIN Frame.ev[1].given.s
    /\ Frame.ev[2].e = "called"
    /\ Frame.ev[3].got = Success(("a" :> "done") @@ Frame.ev[1].given.s)

(***************************************************************************)
(* Properties of the steps as functions (StepSpec).                        *)
(***************************************************************************)
\* The step called and whether the call has been made.
StepCalled == op # <<>> /\ "f" \in DOMAIN op[1]

\* C21: a step wrapped by steplens(get, set) is called with get(state) and
\* with nothing else; when it returns Success or Skipped carrying r the
\* wrapper returns the same variant carrying set(state)(r), and when it
\* returns Failed or Waiting the wrapper returns that very process, set not
\* applied.
C21_Steplens ==
    (StepCalled /\ op[1].f.kind = "steplens") =>
        LET get == op[1].f.get
            set == op[1].f.set
            inner == calls[1]
        IN  /\ Len(calls) = 1
            /\ inner.c = op[1].f.step.name
            /\ inner.a = Apply(get, recv)
            /\ inner.ret.tag \in {"Success", "Skipped"} =>
                   out = [tag |-> inner.ret.tag,
                          s |-> Apply(Apply(set, recv), inner.ret.s)]
            /\ inner.ret.tag \in {"Failed", "Waiting"} => out = inner.ret

\* A focused step returned Success: the state has its result under "sub" and
\* its other keys as before.
C21_Witness ==
    /\ StepCalled /\ op[1].f.kind = "steplens"
    /\ "sub" \in DOMAIN recv
    /\ calls[1].ret.tag = "Success"
    /\ out.tag = "Success"
    /\ out.s["sub"] = calls[1].ret.s
    /\ out.s["process_id"] = recv["process_id"]

\* A focused step returned Waiting with its exception, and so did the wrapper.
C21_WitnessWaiting ==
    /\ StepCalled /\ op[1].f.kind = "steplens"
    /\ calls[1].ret.tag = "Waiting"
    /\ out = Waiting(ExceptionOf(op[1].name))

(***************************************************************************)
(* Properties of >> (ListSpec).                                            *)
(***************************************************************************)
\* The heap a call of __rshift__ left behind.
HeapAfter(k) == IF k < Len(calls) THEN calls[k + 1].a.heap ELSE recv

\* C22: >> is associative, (a >> b) >> c is the list a >> (b >> c); the
\* empty StepList is its left and right identity; a single step is promoted
\* to a list of one element, so that a >> s is a followed by s; and every >>
\* returns a list that did not exist before the call and leaves both of its
\* operands as they were.
C22_Rshift ==
    /\ \A k \in 1..Len(calls) :
          LET c == calls[k]
              before == c.a.heap
              after == HeapAfter(k)
              self == before[c.a.self.id]
          IN  c.ret.type = "StepList" =>
                /\ c.ret.id \notin 1..Len(before)
                /\ \A id \in 1..Len(before) : after[id] = before[id]
                /\ c.a.other.type = "Step" =>
                       after[c.ret.id] = self \o <<c.a.other.v>>
                /\ c.a.other.type = "StepList" =>
                       LET other == before[c.a.other.id]
                       IN  /\ other = begin => after[c.ret.id] = self
                           /\ self = begin => after[c.ret.id] = other
    /\ (/\ op = <<"left", "left">>
        /\ calls[1].a.other.type = "StepList"
        /\ out[1].type = "StepList") =>
          LET first == calls[1].a
              bc == __rshift__(first.heap, first.other.id, calls[2].a.other)
              abc == __rshift__(bc.heap, first.self.id, bc.ret)
          IN  abc.heap[abc.ret.id] = recv[out[1].id]

\* (a >> b) >> c has been evaluated for three lists that are not empty.
C22_Witness ==
    /\ op = <<"left", "left">>
    /\ out[1].type = "StepList"
    /\ \A k \in 1..2 : calls[k].a.other.type = "StepList"
    /\ \A id \in 1..3 : recv[id] # begin
    /\ calls[1].a.other.id = 2 /\ calls[2].a.other.id = 3
    /\ recv[out[1].id] = recv[1] \o recv[2] \o recv[3]

\* begin >> s for a step s is the list of s alone.
C22_WitnessPromoted ==
    /\ Len(calls) >= 1
    /\ calls[1].a.other.type = "Step"
    /\ calls[1].a.heap[calls[1].a.self.id] = begin
    /\ HeapAfter(1)[calls[1].ret.id] = <<calls[1].a.other.v>>

(***************************************************************************)
(* Properties of the decorators (StepSpec).                                *)
(***************************************************************************)
\* C23: a step made by @step returns Success(new_state) when its function
\* returns and Failed(error) when it raises; one made by @retrystep returns
\* Success(new_state) or Waiting(error); the exception never leaves the step.
C23_StepNeverRaises ==
    (StepCalled /\ op[1].f.kind \in {"step", "retrystep"}) =>
        LET new_state == inject_args(op[1].f.func, recv)
            error == ExceptionOf(op[1].name)
        IN  /\ out.tag # "Raised"
            /\ op[1].f.kind = "step" =>
                   out \in {Success(new_state), Failed(error)}
            /\ op[1].f.kind = "retrystep" =>
                   out \in {Success(new_state), Waiting(error)}

\* The function of a retry step raised: the step returned Waiting.
C23_Witness ==
    /\ StepCalled /\ op[1].f.kind = "retrystep"
    /\ out = Waiting(ExceptionOf(op[1].name))

\* The function of a step raised: the step returned Failed.
C23_WitnessFailed ==
    /\ StepCalled /\ op[1].f.kind = "step"
    /\ out = Failed(ExceptionOf(op[1].name))

\* The function of a step returned: Success of the state with its result.
C23_WitnessSuccess ==
    /\ StepCalled /\ op[1].f.kind = "step"
    /\ out.tag = "Success"
    /\ out.s[op[1].name] = "done"
    /\ \A k \in DOMAIN recv : out.s[k] = recv[k]

(***************************************************************************)
(* Properties of retry steps under the driver (WorkflowSpec).              *)
(***************************************************************************)
\* The latest call is a runwf on a Waiting process whose list starts with a
\* retry step.
RetriesWaiting ==
    /\ LastRun > 0
    /\ trace[LastRun].e = "runwf"
    /\ Resumed.tag = "Waiting"
    /\ stack # <<>>
    /\ pstat.log # <<>>
    /\ Head(pstat.log).f.kind = "retrystep"

\* Step k of the frame was handed to the log without having been entered:
\* the engine settings could not be read.
SettingsFailed(f) ==
    \E k \in 1..Len(f.ev) :
        /\ f.ev[k].e = "log"
        /\ \A j \in 1..(k - 1) : ~(f.ev[j].e = "invoke" /\ f.ev[j].i = f.ev[k].i)

\* C24: a retry step that returns Waiting is the last step its run enters,
\* and the run returns Waiting.  A later runwf on that Waiting process, the
\* list still starting at the retry step, hands the whole list to
\* _exec_steps, writes no record but those _exec_steps writes for its steps,
\* and enters the retry step first;
\* when the retry step now succeeds and the engine neither pauses nor fails
\* to read its settings, the run enters every step of the list and returns
\* the result of the last one.
C24_RetryResumes ==
    /\ \A k \in 1..Len(stack) :
          LET f == stack[k]
          IN  \A j \in 1..Len(f.ev) :
                (/\ f.ev[j].e = "return"
                 /\ f.steps[f.ev[j].i].f.kind = "retrystep"
                 /\ f.ev[j].got.tag = "Waiting") =>
                    /\ j >= Len(f.ev) - 1
                    /\ f.i <= f.ev[j].i + 1
                    /\ f.pc = "returned" => f.process.tag = "Waiting"
    /\ RetriesWaiting =>
          LET head == Head(pstat.log)
              f == stack[1]
          IN  /\ f.steps = pstat.log
              /\ f.starting_process = Success(Resumed.s)
              /\ Len(Written(ThisRun)) = Len(Logs(f))
              /\ Entered(ThisRun) # <<>> => Entered(ThisRun)[1] = head.name
              /\ (/\ RunReturned
                  /\ ~f.paused /\ ~SettingsFailed(f)
                  /\ \E j \in 1..Len(f.ev) :
                        /\ f.ev[j].e = "return" /\ f.ev[j].i = 1
                        /\ f.ev[j].got.tag = "Success") =>
                    /\ Entered(ThisRun) = Names(pstat.log)
                    /\ f.i = Len(f.steps) + 1
                    /\ f.process.tag = "Complete"

\* The retry step r raised in one run and succeeded in the next, which went
\* on through b and Done.
C24_Witness ==
    /\ RetriesWaiting
    /\ RunReturned
    /\ Resumed.s["error"] = "r"
    /\ Entered(ThisRun) = <<"r", "b", "Done">>
    /\ Frame.process.tag = "Complete"
    /\ Frame.process.s["r"] = "done"

(***************************************************************************)
(* Properties of input steps under the driver (WorkflowSpec).              *)
(***************************************************************************)
\* The names of the input steps of a list, those inside its groups included.
RECURSIVE InputSteps(_)
InputSteps(steps) ==
    {steps[k].name : k \in {j \in 1..Len(steps) : steps[j].f.kind = "suspend"}}
    \cup UNION {InputSteps(steps[k].f.steps) :
                  k \in {j \in 1..Len(steps) : steps[j].f.kind = "step_group"}}

\* C25: an input step entered with state s returns Suspend(s) and calls
\* nothing (its form is not run); that result is logged, it is the last step
\* its _exec_steps enters, and the call returns a suspended process.  A run
\* that has entered an input step, inside a group or not, enters no step
\* after it and returns with overall status suspended.
C25_InputStepSuspends ==
    /\ \A n \in 1..Len(stack) :
          LET f == stack[n]
          IN  \A j \in 1..Len(f.ev) :
                (/\ f.ev[j].e = "invoke"
                 /\ f.steps[f.ev[j].i].f.kind = "suspend") =>
                    LET s == f.ev[j].given.s
                    IN  /\ Len(f.ev) > j =>
                               f.ev[j + 1] = ReturnEv(f.ev[j].i, Suspend(s))
                        /\ Len(f.ev) > j + 1 =>
                               /\ Len(f.ev) = j + 2
                               /\ f.ev[j + 2].e = "log"
                               /\ f.ev[j + 2].given = Suspend(s)
                        /\ f.i <= f.ev[j].i + 1
                        /\ f.pc = "returned" =>
                               overall_status(f.process) = "suspended"
    /\ (stack # <<>> /\ LastRun > 0 /\ trace[LastRun].e = "runwf") =>
          \A k \in 1..Len(ThisRun) :
             (/\ ThisRun[k].e = "invoke"
              /\ ThisRun[k].name \in InputSteps(pstat.log)) =>
                /\ \A j \in (k + 1)..Len(ThisRun) : ~IsEntry(ThisRun[j])
                /\ RunReturned => overall_status(Frame.process) = "suspended"

\* A run entered a, then the input step u, and returned Suspend with the
\* state u was given.
C25_Witness ==
    /\ RunReturned
    /\ Entered(ThisRun) = <<"a", "u">>
    /\ Frame.process.tag = "Suspend"
    /\ Frame.ev[Len(Frame.ev) - 2].e = "invoke"
    /\ Frame.process.s = Frame.ev[Len(Frame.ev) - 2].given.s
    /\ overall_status(Frame.process) = "suspended"

\* A run entered the input step b inside the group g and returned suspended.
C25_WitnessGroup ==
    /\ RunReturned
    /\ Entered(ThisRun) = <<"g", "g - Enter", "a", "b">>
    /\ overall_status(Frame.process) = "suspended"

(***************************************************************************)
(* Properties of map, unwrap and the predicates (AlgebraSpec).             *)
(***************************************************************************)
\* The predicate that belongs to a variant.
PredicateOf(tag) ==
    CASE tag = "Success" -> "issuccess"
      [] tag = "Skipped" -> "isskipped"
      [] tag = "Suspend" -> "issuspend"
      [] tag = "Waiting" -> "iswaiting"
      [] tag = "AwaitingCallback" -> "isawaitingcallback"
      [] tag = "Abort" -> "isabort"
      [] tag = "Failed" -> "isfailed"
      [] tag = "Complete" -> "iscomplete"

\* C26: for each variant V, state s and function f, V(s).map(f) is V(f(s)),
\* f having been called once, with s; V(s).unwrap() is s; and of the eight
\* predicates exactly one answers true for V(s), the one of V.
C26_MapUnwrapPredicates ==
    /\ LastOp = "map" =>
          /\ Len(calls) = 1
          /\ calls[1].a = recv.s
          /\ out = [tag |-> recv.tag, s |-> calls[1].ret]
    /\ LastOp = "unwrap" => calls[1].ret.returned = recv.s
    /\ LastOp = "is" =>
          /\ Len(calls) = 8
          /\ \A k \in 1..Len(calls) :
                calls[k].ret.returned = (calls[k].c = PredicateOf(recv.tag))
          /\ Cardinality({k \in 1..Len(calls) : calls[k].ret.returned}) = 1

\* Waiting(e).map(error_state_to_dict) is Waiting of the dictionary.
C26_Witness ==
    /\ LastOp = "map"
    /\ recv = Waiting(ExceptionOf("a"))
    /\ calls[1].c = Fn("error_state_to_dict")
    /\ out = Waiting(error_state_to_dict(ExceptionOf("a")))

\* The predicates were asked of a Suspend process: issuspend alone is true.
C26_WitnessPredicates ==
    /\ LastOp = "is"
    /\ recv.tag = "Suspend"
    /\ {calls[k].c : k \in {j \in 1..Len(calls) : calls[j].ret.returned}}
           = {"issuspend"}

\* unwrap of an Abort process gave its state.
C26_WitnessUnwrap ==
    /\ LastOp = "unwrap"
    /\ recv.tag = "Abort"
    /\ calls[1].ret.returned = [process_id |-> "p"]

(***************************************************************************)
(* Properties of _exec_steps on a Skipped process (Spec).                  *)
(***************************************************************************)
\* The call _exec_steps([s], Skipped(x), log) has returned, every call of the
\* log function having returned the process it was given.
SkippedOneStep(f) ==
    /\ f.pc = "returned"
    /\ Len(f.steps) = 1
    /\ f.starting_process.tag = "Skipped"
    /\ \A k \in 1..Len(f.ev) : f.ev[k].e = "log" => f.ev[k].got = f.ev[k].given

\* The engine was not paused and its settings were read.
EngineRan(f) ==
    /\ ~f.paused
    /\ \A k \in 1..Len(f.ev) :
          f.ev[k].e = "log" =>
             f.ev[k].given # Failed(error_state_to_dict(ExceptionOf("settings")))

\* C27 as stated: _exec_steps([s], Skipped(x), identity log) has invoked s
\* with x and returns what s returned, as Skipped(x).execute_step(s) does.
C27_SkippedTransparent ==
    \A n \in 1..Len(stack) :
        LET f == stack[n]
        IN  SkippedOneStep(f) =>
              /\ Len(f.ev) = 3
              /\ f.ev[1] = InvokeEv(1, f.starting_process.s)
              /\ f.ev[2] = ReturnEv(1, f.process)

\* C27, amended: with the engine not paused and its settings read,
\* _exec_steps([s], Skipped(x), identity log) invokes s once, with x and the
\* key __last_step_started_at added to it, as Skipped of that state's
\* execute_step(s) does, and returns what s returned, error_state_to_dict
\* applied to what a Failed or Waiting result carries; when s raises it
\* returns Failed of the exception's dictionary.
C27_SkippedStamped ==
    \A n \in 1..Len(stack) :
        LET f == stack[n]
        IN  (SkippedOneStep(f) /\ EngineRan(f)) =>
              LET x == f.starting_process.s
                  stamped == f.ev[1].given.s
                  got == f.ev[2].got
              IN  /\ Len(f.ev) = 3
                  /\ f.ev[1].e = "invoke"
                  /\ DOMAIN stamped = DOMAIN x \cup {"__last_step_started_at"}
                  /\ \A k \in DOMAIN x : stamped[k] = x[k]
                  /\ execute_step(Skipped(stamped), f.steps[1])
                        = Call(f.steps[1], stamped)
                  /\ f.ev[2].e \in {"return", "raise"}
                  /\ f.process =
                        IF f.ev[2].e = "raise"
                        THEN Failed(error_state_to_dict(got.s))
                        ELSE IF got.tag \in {"Failed", "Waiting"}
                        THEN [tag |-> got.tag, s |-> error_state_to_dict(got.s)]
                        ELSE got

\* A step run from Skipped(x) returned Success: the call returns that
\* Success, whose state has x, the start time and the step's own key.
C27_Witness ==
    /\ Top = 1
    /\ SkippedOneStep(Frame) /\ EngineRan(Frame)
    /\ Frame.process.tag = "Success"
    /\ Frame.process = Frame.ev[2].got
    /\ "__last_step_started_at" \in DOMAIN Frame.process.s
    /\ Frame.process.s[Frame.steps[1].name] = "done"
    /\ \A k \in DOMAIN Frame.starting_process.s :
          Frame.process.s[k] = Frame.starting_process.s[k]

(***************************************************************************)
(* Sequential execution (WorkflowSpec).  runwf and abort_wf are calls made *)
(* one after the other, in any order, on the one process.                  *)
(***************************************************************************)
\* The names of the groups of a list that have a sub-step called `name`.
GroupsOf(name, steps) ==
    {steps[k].name :
        k \in {j \in 1..Len(steps) :
                 /\ steps[j].f.kind = "step_group"
                 /\ \E n \in 1..Len(steps[j].f.steps) :
                       steps[j].f.steps[n].name = name}}

C29_ErrorsProjected ==
    \A n \in 1..Len(stack) :
        LET f == stack[n]
        IN  \A k \in 1..Len(f.ev) :
              f.ev[k].e = "log" =>
                 LET given == f.ev[k].given
                     stepped == k > 1 /\ f.ev[k - 1].i = f.ev[k].i
                 IN  IF given.tag \in {"Failed", "Waiting"}
                     THEN /\ ~IsException(given.s)
                          /\ stepped =>
                                given.s = error_state_to_dict(f.ev[k - 1].got.s)
                          /\ (stepped /\ f.ev[k - 1].e = "return") =>
                                given.tag = f.ev[k - 1].got.tag
                          /\ (stepped /\ f.ev[k - 1].e = "raise") =>
                                given.tag = "Failed"
                     ELSE /\ stepped
                          /\ f.ev[k - 1].e = "return"
                          /\ given = f.ev[k - 1].got

\* A step returned Waiting with an exception; the log function was given
\* Waiting with the dictionary made from it.
C29_Witness ==
    /\ Top = 1
    /\ Len(Frame.ev) >= 3
    /\ Frame.ev[Len(Frame.ev)].e = "log"
    /\ Frame.ev[Len(Frame.ev) - 1].e = "return"
    /\ IsException(Frame.ev[Len(Frame.ev) - 1].got.s)
    /\ Frame.ev[Len(Frame.ev) - 1].got.tag = "Waiting"
    /\ Frame.ev[Len(Frame.ev)].given.tag = "Waiting"
    /\ Frame.ev[Len(Frame.ev)].given.s["class"] = "Exception"

\* A step returned Suspend; the log function was given that very process.
C29_WitnessUntouched ==
    /\ Top = 1
    /\ Len(Frame.ev) >= 3
    /\ Frame.ev[Len(Frame.ev)].e = "log"
    /\ Frame.ev[Len(Frame.ev)].given.tag = "Suspend"
    /\ Frame.ev[Len(Frame.ev)].given = Frame.ev[Len(Frame.ev) - 1].got

(***************************************************************************)
(* What a group hands to the log hook (WorkflowSpec).                      *)
(***************************************************************************)
\* The innermost _exec_steps is a group's and has just logged a sub-step.
GroupLogged ==
    /\ Top >= 2
    /\ Frame.dblogstep.fn = "step_group.dblogstep"
    /\ Frame.ev # <<>>
    /\ Frame.ev[Len(Frame.ev)].e = "log"

\* The state the group step was entered with.
GroupEnteredWith == stack[Top - 1].ev[Len(stack[Top - 1].ev)].given.s

\* C30: the process a group hands to the log hook for a sub-step carries
\* __sub_step = the sub-step's name and __step_name_override = the group's
\* name, and is otherwise the sub-step's result; it carries
\* __replace_last_state = true exactly when the sub-step is not the first of
\* the list the group is running or the group was entered with __sub_step in
\* its state.
C30_GroupLogFlags ==
    GroupLogged =>
        LET logged == Frame.ev[Len(Frame.ev)]
            step == Frame.steps[logged.i]
            group == stack[Top - 1].steps[stack[Top - 1].i]
            handed == trace[Len(trace)]
            replaces == "__replace_last_state" \in DOMAIN handed.p.s
        IN  /\ handed.e = "logstep"
            /\ handed.name = step.name
            /\ handed.p.tag = logged.given.tag
            /\ handed.p.s["__sub_step"] = step.name
            /\ handed.p.s["__step_name_override"] = group.name
            /\ \A k \in DOMAIN logged.given.s \
                         {"__sub_step", "__step_name_override",
                          "__replace_last_state"} :
                  handed.p.s[k] = logged.given.s[k]
            /\ replaces <=> (logged.i # 1
                             \/ "__sub_step" \in DOMAIN GroupEnteredWith)
            /\ replaces => handed.p.s["__replace_last_state"] = TRUE

\* Entered afresh, group g has logged its second sub-step, a, as a
\* replacement of the record of its first.
C30_Witness ==
    /\ GroupLogged
    /\ "__sub_step" \notin DOMAIN GroupEnteredWith
    /\ Len(Logs(Frame)) = 2
    /\ trace[Len(trace)].name = "a"
    /\ trace[Len(trace)].p.s["__replace_last_state"] = TRUE
    /\ "__replace_last_state" \notin DOMAIN trace[Len(trace) - 2].p.s
    /\ trace[Len(trace) - 2].name = "g - Enter"

\* Entered again with __sub_step = b, group g has logged the first step of
\* the list it runs now, c, as a replacement.
C30_WitnessResumed ==
    /\ GroupLogged
    /\ "__sub_step" \in DOMAIN GroupEnteredWith
    /\ GroupEnteredWith["__sub_step"] = "b"
    /\ Len(Logs(Frame)) = 1
    /\ trace[Len(trace)].name = "c"
    /\ trace[Len(trace)].p.s["__replace_last_state"] = TRUE

(***************************************************************************)
(* What a group returns to the _exec_steps that entered it (WorkflowSpec). *)
(***************************************************************************)
\* A step of the model is the return of a group's `func` to execute_step.
GroupReturns ==
    /\ Top > 1 /\ Frame.pc = "returned"
    /\ Len(stack') = Top - 1

\* A step of the model is the caller's log call for the group it has run, a
\* group that logged a sub-step last.
GroupIsLogged ==
    /\ Top >= 1 /\ Frame.pc = "log"
    /\ Frame.steps[Frame.i].f.kind = "step_group"
    /\ Frame.ev # <<>>
    /\ Frame.ev[Len(Frame.ev)].e = "return"
    /\ trace[Len(trace)].e = "logstep"
    /\ Len(stack') = Top /\ stack'[Top].pc = "for"

\* C31: a group that ran a sub-step returns the process its last sub-step
\* left (what the log hook answered for it) with __replace_last_state = true
\* and __last_step_started_at = the time the group call started, whatever the
\* variant; the caller's log call for the group then replaces the last
\* record, the one of that sub-step, and adds none.
C31_GroupReturn ==
    [][/\ (GroupReturns /\ Logs(Frame) # <<>>) =>
              LET last == Logs(Frame)[Len(Logs(Frame))]
                  start == stack[Top - 1].func.step_group_start_time
                  ret == stack'[Top - 1].step_result_process
              IN  /\ ret.tag = last.got.tag
                  /\ ret.tag = last.given.tag
                  /\ DOMAIN ret.s = DOMAIN last.got.s
                                    \cup {"__replace_last_state",
                                          "__last_step_started_at"}
                  /\ ret.s["__replace_last_state"] = TRUE
                  /\ ret.s["__last_step_started_at"] = start
                  /\ \A k \in DOMAIN last.got.s \ {"__replace_last_state",
                                                   "__last_step_started_at"} :
                        ret.s[k] = last.got.s[k]
       /\ GroupIsLogged =>
              /\ db # <<>>
              /\ db[Len(db)].name = Frame.steps[Frame.i].name
              /\ Len(db') = Len(db)
              /\ \A k \in 1..(Len(db) - 1) : db'[k] = db[k]
              /\ db'[Len(db)].name = Frame.steps[Frame.i].name
              /\ db'[Len(db)].status = Frame.step_result_process.tag
              /\ "__replace_last_state" \in DOMAIN trace'[Len(trace')].p.s]_vars

\* Sub-step b of group g suspended the process: the caller has logged g with
\* Suspend and __replace_last_state, and the log holds one record, of g.
C31_Witness ==
    /\ Top = 1 /\ Frame.pc = "for" /\ Frame.ev # <<>>
    /\ Frame.steps[Frame.i - 1].f.kind = "step_group"
    /\ LET logged == Frame.ev[Len(Frame.ev)]
       IN  /\ logged.e = "log"
           /\ logged.given.tag = "Suspend"
           /\ logged.given.s["__sub_step"] = "b"
           /\ logged.given.s["__replace_last_state"] = TRUE
           /\ logged.given.s["__last_step_started_at"] = 2
    /\ Len(db) = 1
    /\ db[1].name = "g" /\ db[1].status = "Suspend"

\* A sub-step of the group failed: the group has returned Failed with the
\* two keys in the error dictionary.
C31_WitnessFailed ==
    /\ Top = 1 /\ Frame.pc = "log"
    /\ Frame.steps[Frame.i].f.kind = "step_group"
    /\ isfailed(Frame.step_result_process)
    /\ "__replace_last_state" \in DOMAIN Frame.step_result_process.s
    /\ "error" \in DOMAIN Frame.step_result_process.s
    /\ trace[Len(trace)].e = "logstep"
    /\ trace[Len(trace)].name = "c"

(***************************************************************************)
(* The markers of a group (WorkflowSpec).                                  *)
(***************************************************************************)
Markers == {"__step_group", "__step_name_override", "__sub_step"}

EnterName(name) == name \o " - Enter"
ExitName(name) == name \o " - Exit"

GroupNames == {"g", "h", "k", "cb"}

\* Entry k of `trace` is the first step entered after a group called `name`
\* ran its exit step and was logged itself.
FollowsGroup(k, name) ==
    /\ k > 3
    /\ IsEntry(trace[k])
    /\ trace[k - 1].e = "logstep" /\ trace[k - 1].name = name
    /\ trace[k - 2].e = "logstep" /\ trace[k - 2].name = ExitName(name)
    /\ issuccess(trace[k - 2].p)

\* C32: a group's list starts with the enter step, whose result is the state
\* it got with __step_name_override = name and __step_group = name written,
\* and ends with the exit step; once the exit step has been logged with
\* Success the state has none of __step_group, __step_name_override and
\* __sub_step, nor has the state the next step is entered with after the
\* group was logged itself.
C32_MarkersRemoved ==
    /\ \A n \in 1..Len(stack) :
          InGroup(n) =>
              LET group == GroupOf(n)
                  steps == group.f.steps
                  f == stack[n]
              IN  /\ steps[1].name = EnterName(group.name)
                  /\ steps[Len(steps)].name = ExitName(group.name)
                  /\ \A k \in 2..Len(f.ev) :
                        (/\ f.ev[k].e = "return"
                         /\ f.steps[f.ev[k].i].name = EnterName(group.name)) =>
                            /\ f.ev[k - 1].e = "invoke"
                            /\ f.ev[k].got =
                                  Success(("__step_name_override" :> group.name)
                                          @@ ("__step_group" :> group.name)
                                          @@ f.ev[k - 1].given.s)
                  /\ \A k \in 1..Len(f.ev) :
                        (/\ f.ev[k].e = "log"
                         /\ f.steps[f.ev[k].i].name = ExitName(group.name)
                         /\ issuccess(f.ev[k].given)) =>
                            DOMAIN f.ev[k].got.s \cap Markers = {}
    /\ \A k \in 1..Len(trace), name \in GroupNames :
          FollowsGroup(k, name) => DOMAIN trace[k].p.s \cap Markers = {}

\* Group g, entered again after its input step b, ran c, d and its exit step
\* and was logged, and e has been entered after it.
C32_Witness ==
    /\ Len(trace) > 3
    /\ FollowsGroup(Len(trace), "g")
    /\ trace[Len(trace)].name = "e"
    /\ Entered(ThisRun) = <<"g", "c", "d", "g - Exit", "e">>
    /\ "__step_group" \in DOMAIN Resumed.s

(***************************************************************************)
(* The invalidation signal of runwf (WorkflowSpec).                        *)
(***************************************************************************)
\* A step of the model is the return of runwf to its caller.
RunwfReturns ==
    /\ Top = 1 /\ Frame.dblogstep.fn = "_logstep"
    /\ stack' = <<>>

\* C33: when runwf returns, invalidate_status_counts has been called once
\* more if the process returned is Failed (overall status failed) and not at
\* all if it is of another variant; nothing else calls it.
C33_InvalidatesOnFailed ==
    [][IF RunwfReturns
       THEN /\ result' = Frame.process
            /\ isfailed(result') => invalidated' = invalidated + 1
            /\ ~isfailed(result') => invalidated' = invalidated
       ELSE invalidated' = invalidated]_vars

\* runwf has returned Failed twice, and the signal was sent twice.
C33_Witness ==
    /\ stack = <<>> /\ runs = 2
    /\ isfailed(result)
    /\ trace[LastRun].e = "runwf" /\ isfailed(trace[LastRun].p)
    /\ invalidated = 2

\* runwf has returned Waiting, and no signal was sent.
C33_WitnessWaiting ==
    /\ stack = <<>> /\ runs = 1
    /\ iswaiting(result)
    /\ invalidated = 0

(***************************************************************************)
(* Which log calls replace a record (WorkflowSpec).                        *)
(***************************************************************************)
\* A step of the model is a call of the log writer; Handed is the process
\* the writer is given.
LogCall ==
    /\ Len(trace') > Len(trace)
    /\ trace'[Len(trace')].e = "logstep"

Handed == trace'[Len(trace')].p

Replaces(p) == "__replace_last_state" \in DOMAIN p.s

\* The log call is made by _exec_steps for the step it has just run.
LogsStep == Running /\ Frame.pc = "log"

\* C34: a log call without __replace_last_state appends a record and changes
\* none; the key is on the process handed to the writer only for a sub-step
\* that a group logs (one that is not the first of its list, or any in a
\* group entered with __sub_step) and for a group itself; the result of a
\* step that is not a group, logged by runwf's own _exec_steps, never has it
\* and is appended.
C34_ReplaceOnlyInGroups ==
    [][LogCall =>
          /\ ~Replaces(Handed) =>
                /\ Len(db') = Len(db) + 1
                /\ SubSeq(db', 1, Len(db)) = db
                /\ db'[Len(db')].status = Handed.tag
          /\ Replaces(Handed) =>
                /\ LogsStep
                /\ \/ /\ Frame.dblogstep.fn = "step_group.dblogstep"
                      /\ Frame.i # 1 \/ Frame.dblogstep.resumed
                   \/ Frame.steps[Frame.i].f.kind = "step_group"
          /\ (/\ LogsStep /\ Top = 1
              /\ Frame.steps[Frame.i].f.kind # "step_group") =>
                ~Replaces(Handed)]_vars

\* Group g ran to its exit step and was logged; step e, which follows it,
\* was logged with Success and its record was added after the one of g.
C34_Witness ==
    /\ Len(trace) > 4
    /\ FollowsGroup(Len(trace) - 1, "g")
    /\ trace[Len(trace)].e = "logstep"
    /\ trace[Len(trace)].name = "e"
    /\ issuccess(trace[Len(trace)].p)
    /\ Replaces(trace[Len(trace) - 2].p)
    /\ ~Replaces(trace[Len(trace)].p)
    /\ Len(db) >= 2
    /\ db[Len(db)].name = "e" /\ db[Len(db) - 1].name = "g"

(***************************************************************************)
(* The log over a sequence of runwf and abort_wf calls (WorkflowSpec).     *)
(***************************************************************************)
\* The log after a step of the model has the records it had, the last one
\* excepted, and is not shorter.
LogExtended ==
    /\ Len(db') >= Len(db)
    /\ \A k \in 1..(Len(db) - 1) : db'[k] = db[k]

\* The process is the one of the last record of the log.
LastPersisted(process, records) ==
    /\ records # <<>>
    /\ process.tag = records[Len(records)].status
    /\ process.s = records[Len(records)].state

\* C35 as stated: the log never gets shorter, no record but the last is ever
\* changed, and the process runwf returns is the one of the last record
\* (when there is a record).
C35_LogMonotone ==
    [][/\ LogExtended
       /\ (RunwfReturns /\ db' # <<>>) => LastPersisted(result', db')]_vars

\* C35, amended: the log never gets shorter and no record but the last is
\* ever changed; the process runwf returns is the one of the last record if
\* the call has logged a step, and otherwise (engine paused before the first
\* step, no step left, or a process that cannot continue) it is the process
\* _exec_steps was started with, which has no record when it is a failed or
\* waiting process taken up again as Success or a process never logged.
C35_LogMonotoneLoggedRuns ==
    [][/\ LogExtended
       /\ RunwfReturns =>
             IF Written(ThisRun) # <<>>
             THEN LastPersisted(result', db')
             ELSE /\ result' = Frame.starting_process
                  /\ result' = resume(trace[LastRun].p, "resume_suspend")
                  /\ db' = db]_vars

\* A call of runwf has logged steps, the last with Suspend, and returned:
\* the log has grown to two records or more and the process returned is the
\* last of them.
C35_Witness ==
    /\ stack = <<>> /\ runs >= 2
    /\ trace[LastRun].e = "runwf"
    /\ Len(Written(ThisRun)) >= 2
    /\ Len(db) >= 2
    /\ issuspend(result)
    /\ LastPersisted(result, db)

\* A failed process was run again with the engine paused: runwf returned
\* Success and logged nothing, and the last record is still the failure.
C35_WitnessPaused ==
    /\ stack = <<>> /\ runs >= 2
    /\ trace[LastRun].e = "runwf"
    /\ isfailed(trace[LastRun].p)
    /\ ThisRun = <<>>
    /\ issuccess(result)
    /\ db # <<>> /\ db[Len(db)].status = "Failed"

(***************************************************************************)
(* The log hook under concurrent runs (ThreadSpec).                        *)
(***************************************************************************)
\* C36: whenever a thread is in _exec_steps, the hook of its context is the
\* closure its own runwf made, and every result a group has logged was
\* logged against the ProcessStat of the runwf call that ran the group.
C36_OwnLogHook ==
    /\ \A t \in Threads :
          stack[t].pc \in {"for", "in step", "return"} =>
              step_log_fn_var[t] = _logstep(pstat[t])
    /\ \A t \in Threads :
          stack[t].pc = "in step" => stack[t].step_log_fn = _logstep(pstat[t])
    /\ \A r \in db : r.pstat = r.running

\* Both threads are inside a group at once, each on its own process, thread
\* t1 in a context that still held the hook of the process it ran before;
\* sub-steps of two processes have been logged.
C36_Witness ==
    /\ stack["t1"].pc = "in step" /\ stack["t2"].pc = "in step"
    /\ pstat["t1"].id # pstat["t2"].id
    /\ \E r \in db : r.sub /\ r.running = pstat["t1"].id
    /\ \E r \in db : r.sub /\ r.running = pstat["t2"].id
    /\ step_log_fn_var["t1"] = _logstep(pstat["t1"])
    /\ \E r \in db : r.running \notin {pstat["t1"].id, pstat["t2"].id}

(***************************************************************************)
(* A group inside a group (NestedSpec).                                    *)
(***************************************************************************)
\* The latest call is a runwf on the process that the input step x of the
\* inner group h had suspended: x, h and g were logged with Suspend, in that
\* order, right before the call.
ResumesInner ==
    /\ LastRun > 3
    /\ trace[LastRun].e = "runwf" /\ issuspend(trace[LastRun].p)
    /\ trace[LastRun - 3].e = "logstep" /\ trace[LastRun - 3].name = "x"
    /\ trace[LastRun - 2].e = "logstep" /\ trace[LastRun - 2].name = "h"
    /\ trace[LastRun - 1].e = "logstep" /\ trace[LastRun - 1].name = "g"
    /\ issuspend(trace[LastRun - 3].p)

\* C37: a run that resumes a process suspended at sub-step x of the inner
\* group h enters g, in it h, in h the sub-step y that follows x and the exit
\* step of h, then the sub-step c of g that follows h and the exit step of g,
\* then e: each once and in this order, so what it has entered so far is a
\* beginning of that list, and all of it once the run has logged e.
C37_NestedResume ==
    ResumesInner =>
        LET expected == <<"g", "h", "y", "h - Exit", "c", "g - Exit", "e">>
            entered == Entered(ThisRun)
        IN  /\ IsPrefix(entered, expected)
            /\ (\E k \in 1..Len(ThisRun) :
                   ThisRun[k].e = "logstep" /\ ThisRun[k].name = "e") =>
                  entered = expected

(***************************************************************************)
(* C38: the retry of a group whose sub-step failed                         *)
(***************************************************************************)
Halted == {"Failed", "Waiting"}

\* The call of runwf that is running, or ran last, was given the process the
\* call before it returned, after a sub-step that was entered had been logged
\* Failed or Waiting, and its group after it.
RetriesSubStep ==
    /\ LastRun > 3
    /\ trace[LastRun].e = "runwf"
    /\ trace[LastRun].p.tag \in Halted
    /\ trace[LastRun - 1].e = "logstep"
    /\ trace[LastRun - 1].name \in GroupNames
    /\ trace[LastRun - 1].p.tag = trace[LastRun].p.tag
    /\ trace[LastRun - 2].e = "logstep"
    /\ trace[LastRun - 2].p.tag = trace[LastRun].p.tag
    /\ "__sub_step" \in DOMAIN trace[LastRun - 2].p.s
    /\ trace[LastRun - 2].p.s["__sub_step"] = trace[LastRun - 2].name
    /\ trace[LastRun - 3].e = "invoke"
    /\ trace[LastRun - 3].name = trace[LastRun - 2].name

FailedSubStep == trace[LastRun - 2].name

\* C38: when a sub-step of a step group has ended in Failed or Waiting and
\* runwf is called on the process that run returned, the first sub-step the
\* group enters is the one that failed, not the one after it.
C38_RetryInvokesFailedSubStep ==
    RetriesSubStep =>
        LET entered == Entered(ThisRun)
        IN  Len(entered) >= 2 /\ entered[1] = trace[LastRun - 1].name
                => entered[2] = FailedSubStep

(***************************************************************************)
(* C39: a group called with a __sub_step it cannot place                   *)
(***************************************************************************)
\* Frame n is the _exec_steps of a group that was called with a state whose
\* __sub_step is the name of none of its steps, or of the last one, its exit
\* step.
NamesNoStep(n) ==
    /\ InGroup(n)
    /\ "__sub_step" \in DOMAIN InitialState(n)
    /\ LET steps == GroupOf(n).f.steps
       IN  IndexOf(InitialState(n)["__sub_step"], steps) \in {0, Len(steps)}

C39_WitnessExit ==
    /\ NamesNoStep(Top)
    /\ IndexOf(InitialState(Top)["__sub_step"], GroupOf(Top).f.steps) > 0
    /\ Frame.pc = "returned"

\* A group with two sub-steps called b was called with __sub_step = b after
\* the second of them had suspended, and has entered c and the second b again.
C39_WitnessSameName ==
    /\ InGroup(Top)
    /\ Names(GroupOf(Top).f.steps) = <<"k - Enter", "b", "c", "b", "d", "k - Exit">>
    /\ "__sub_step" \in DOMAIN InitialState(Top)
    /\ Names(Frame.steps) = <<"c", "b", "d", "k - Exit">>
    /\ Invoked(Frame) = <<"c", "b">>
    /\ Len(Written(SubSeq(trace, 1, LastRun))) >= 3

(***************************************************************************)
(* C40: runwf terminates                                                   *)
(***************************************************************************)
\* The positions, in its list, of the steps a frame has entered.
InvokedAt(f) ==
    LET entries == SelectSeq(f.ev, LAMBDA e : e.e = "invoke")
    IN  [k \in 1..Len(entries) |-> entries[k].i]

StrictlyIncreasing(q) == \A j, k \in 1..Len(q) : j < k => q[j] < q[k]

\* Every _exec_steps that is running, the one of runwf and the one of each
\* group, has entered each step of its list at most once, in the order of
\* the list.
InvokedAtMostOnce ==
    \A n \in 1..Len(stack) :
        /\ StrictlyIncreasing(InvokedAt(stack[n]))
        /\ \A k \in 1..Len(InvokedAt(stack[n])) :
              InvokedAt(stack[n])[k] \in 1..Len(stack[n].steps)

\* No _exec_steps goes back in its list, and none stays at a step it has
\* logged.
NeverGoesBack ==
    \A n \in 1..Len(stack) :
        n <= Len(stack') =>
            /\ stack'[n].steps = stack[n].steps
            /\ stack'[n].i >= stack[n].i
            /\ (n = Top /\ stack[n].pc = "log" /\ stack'[n] # stack[n]) =>
                  stack'[n].i = stack[n].i + 1

\* C40: a call of runwf returns: once _exec_steps is running, it has returned
\* to runwf's caller at some later time; while it runs, each step of its
\* list and each sub-step of each group is entered at most once, and no list
\* is gone back in.
C40_Terminates ==
    /\ [](stack # <<>> => <>(stack = <<>>))
    /\ []InvokedAtMostOnce
    /\ [][NeverGoesBack]_vars

\* runwf has returned after it ran every sub-step of a group and the step
\* after the group.
C40_Witness ==
    /\ stack = <<>> /\ LastRun > 0 /\ trace[LastRun].e = "runwf"
    /\ Entered(ThisRun) = <<"g", "c", "d", "g - Exit", "e">>
    /\ iscomplete(result) \/ issuccess(result)
====
